---- MODULE Spec2Model ----
(***************************************************************************)
(* PulseTrader: the TDX day-file decoder (parsers/tdx_day.rs,              *)
(* parsers/utils.rs), the rule-driven data cleaner                         *)
(* (processors/cleaner.rs), the indicator engine                           *)
(* (processors/calculator.rs), the aggregator (processors/aggregator.rs)   *)
(* and the bounded-concurrency orchestrator (processors/mod.rs).           *)
(*                                                                         *)
(* Numeric conventions.  A price is an f64 obtained from a u32 by          *)
(* dividing by 100.0; the model keeps it as the integer number of          *)
(* hundredths, so 0.01 is 1 and 10000.0 is 1000000 and every comparison    *)
(* of the source keeps its outcome.  A NaiveDate is the triple             *)
(* <<year, month, day>>.  A string is a sequence of one-character strings. *)
(* The source reports every failure as an anyhow message; the model names  *)
(* the failure by its kind (InvalidLength, InvalidDate, InvalidPrice,      *)
(* InvalidSymbol, UnknownMarket, UnknownField).                            *)
(***************************************************************************)
EXTENDS Integers, Sequences, FiniteSets, TLC

VARIABLES
    buffer,        \* parse_binary_data: the complete 32-byte records of the byte buffer
    extra,         \* parse_binary_data: the bytes of the buffer after the last complete record
    parsed,        \* the value returned by the last parse_binary_data call
    path,          \* extract_symbol_market: the file path (directory segments, file stem)
    extracted,     \* the value returned by the last extract_symbol_market call
    validated,     \* the value returned by the last validate_symbol call
    rules,         \* DataCleaner.rules
    trading_days,  \* DataCleaner.trading_days
    data,          \* the record vector handed to clean
    result,        \* the value returned by the last clean call on the present configuration
    series,        \* the record slice handed to the indicator calculator
    enhanced,      \* the value returned by the last calculate_* call
    aggregations,  \* DataAggregator.rules
    samples,       \* the record slice handed to aggregate
    aggregated,    \* the value returned by the last aggregate call on the present rules
    datasets,      \* the slices handed to aggregate_parallel
    gathered,      \* the value returned by the last aggregate_parallel call
    stream_args,   \* the batch size and the rule handed to aggregate_stream
    streamed,      \* the value returned by the last aggregate_stream call
    concurrency_limit,  \* DataProcessor.concurrency_limit
    semaphore,     \* the permits available in DataProcessor.semaphore
    calls          \* the process_parallel / process_stream calls in progress on the processor

vars == <<buffer, extra, parsed, path, extracted, validated,
          rules, trading_days, data, result,
          series, enhanced, aggregations, samples, aggregated,
          datasets, gathered, stream_args, streamed,
          concurrency_limit, semaphore, calls>>

parserVars == <<buffer, extra, parsed>>
symbolVars == <<path, extracted, validated>>
cleanerVars == <<rules, trading_days, data, result>>
calculatorVars == <<series, enhanced>>
aggregatorVars == <<aggregations, samples, aggregated, datasets, gathered, stream_args, streamed>>
orchestratorVars == <<concurrency_limit, semaphore, calls>>

----------------------------------------------------------------------------
(* Bounds of the model.                                                    *)

MaxRecords == 3
MaxStem == 6
MaxRules == 3
MaxData == 3
MaxDedupRules == 2
MaxDedupData == 3
MaxPasses == 2
MaxPriceData == 1
MaxTallyData == 2
MaxTallyRules == 2
MaxFillData == 3
MaxFillRules == 1
MaxOutlierData == 3
MaxOutlierRules == 2
MaxSeries == 61
MaxMixed == 4
MaxWindowData == 5
MaxWindowRules == 1
MaxMedianData == 4
MaxMedianRules == 1
MaxUnknownData == 2
MaxUnknownRules == 2
MaxGatherData == 2
MaxGatherSets == 2
MaxGatherRules == 1
MaxStream == 3
MaxBatch == 3
MaxLimit == 3
MaxItems == 4
MaxAdmitLimit == 2
MaxCalls == 2

----------------------------------------------------------------------------
(* Generic helpers.                                                        *)

Range(s) == {s[i] : i \in 1..Len(s)}

SeqsUpTo(S, n) == UNION {[1..k -> S] : k \in 0..n}

RECURSIVE SumSeq(_)
SumSeq(s) == IF s = <<>> THEN 0 ELSE s[1] + SumSeq(Tail(s))

NoValue == [status |-> "none"]

Failure(kind) == [status |-> "err", error |-> kind]

----------------------------------------------------------------------------
(* parsers/tdx_day.rs: the record decoder and validator.                   *)

SIZE == 32

BufferLen(buf, ext) == SIZE * Len(buf) + ext

\* u32::to_string().len(): the number of decimal digits
RECURSIVE DecimalDigits(_)
DecimalDigits(n) == IF n < 10 THEN 1 ELSE 1 + DecimalDigits(n \div 10)

IsLeapYear(y) == (y % 4 = 0 /\ y % 100 # 0) \/ y % 400 = 0

DaysInMonth(y, m) ==
    IF m \in {4, 6, 9, 11} THEN 30
    ELSE IF m = 2 THEN (IF IsLeapYear(y) THEN 29 ELSE 28)
    ELSE 31

\* NaiveDate::from_ymd_opt
FromYmdOpt(y, m, d) ==
    IF m \in 1..12 /\ d >= 1 /\ d <= DaysInMonth(y, m)
    THEN [status |-> "ok", date |-> <<y, m, d>>]
    ELSE Failure("InvalidDate")

\* the date part of convert_binary_record: 8 decimal digits split 4/2/2
ConvertDate(raw) ==
    IF DecimalDigits(raw) # 8
    THEN Failure("InvalidDate")
    ELSE FromYmdOpt(raw \div 10000, (raw \div 100) % 100, raw % 100)

\* NaiveDate ordering
DateLess(a, b) ==
    \/ a[1] < b[1]
    \/ a[1] = b[1] /\ a[2] < b[2]
    \/ a[1] = b[1] /\ a[2] = b[2] /\ a[3] < b[3]

DateLeq(a, b) == a = b \/ DateLess(a, b)

\* validate_prices with one check left out: open below low is let through
ValidatePricesNoOpenFloor(open, high, low, close) ==
    IF open <= 0 \/ high <= 0 \/ low <= 0 \/ close <= 0 THEN Failure("InvalidPrice")
    ELSE IF high < low THEN Failure("InvalidPrice")
    ELSE IF open > high \/ close > high \/ close < low THEN Failure("InvalidPrice")
    ELSE IF open < 1 \/ high > 1000000 \/ low < 1 \/ close > 1000000
         THEN Failure("InvalidPrice")
    ELSE [status |-> "ok"]

ValidatePrices(open, high, low, close) ==
    IF open <= 0 \/ high <= 0 \/ low <= 0 \/ close <= 0 THEN Failure("InvalidPrice")
    ELSE IF high < low THEN Failure("InvalidPrice")
    ELSE IF open > high \/ open < low \/ close > high \/ close < low
         THEN Failure("InvalidPrice")
    ELSE IF open < 1 \/ high > 1000000 \/ low < 1 \/ close > 1000000
         THEN Failure("InvalidPrice")
    ELSE [status |-> "ok"]

ConvertBinaryRecord(binary, symbol, market) ==
    LET d == ConvertDate(binary.date) IN
    IF d.status = "err" THEN d
    ELSE LET v == ValidatePrices(binary.open, binary.high, binary.low, binary.close) IN
         IF v.status = "err" THEN v
         ELSE [status |-> "ok",
               record |-> [date |-> d.date, symbol |-> symbol,
                           open |-> binary.open, high |-> binary.high,
                           low |-> binary.low, close |-> binary.close,
                           volume |-> binary.volume, amount |-> binary.amount,
                           market |-> market]]

\* slice::sort_by(|a, b| a.date.cmp(&b.date)): a stable sort
RECURSIVE InsertByDate(_, _)
InsertByDate(sorted, r) ==
    IF sorted = <<>> THEN <<r>>
    ELSE IF DateLess(r.date, sorted[Len(sorted)].date)
         THEN Append(InsertByDate(SubSeq(sorted, 1, Len(sorted) - 1), r),
                     sorted[Len(sorted)])
         ELSE Append(sorted, r)

RECURSIVE SortByDate(_)
SortByDate(s) ==
    IF s = <<>> THEN <<>>
    ELSE InsertByDate(SortByDate(SubSeq(s, 1, Len(s) - 1)), s[Len(s)])

\* the loop of parse_binary_data that, like parse_directory does for files,
\* passes over a record it cannot convert
RECURSIVE ParseLoopSkipping(_, _, _, _, _)
ParseLoopSkipping(buf, i, records, symbol, market) ==
    IF i > Len(buf)
    THEN [status |-> "ok", records |-> SortByDate(records)]
    ELSE LET r == ConvertBinaryRecord(buf[i], symbol, market) IN
         IF r.status = "err"
         THEN ParseLoopSkipping(buf, i + 1, records, symbol, market)
         ELSE ParseLoopSkipping(buf, i + 1, Append(records, r.record), symbol, market)

\* parse_binary_data without the final sort
RECURSIVE ParseLoopUnsorted(_, _, _, _, _)
ParseLoopUnsorted(buf, i, records, symbol, market) ==
    IF i > Len(buf)
    THEN [status |-> "ok", records |-> records]
    ELSE LET r == ConvertBinaryRecord(buf[i], symbol, market) IN
         IF r.status = "err" THEN r
         ELSE ParseLoopUnsorted(buf, i + 1, Append(records, r.record), symbol, market)

\* the loop of parse_binary_data, from record i (1-based) on
RECURSIVE ParseLoop(_, _, _, _, _)
ParseLoop(buf, i, records, symbol, market) ==
    IF i > Len(buf)
    THEN [status |-> "ok", records |-> SortByDate(records)]
    ELSE LET r == ConvertBinaryRecord(buf[i], symbol, market) IN
         IF r.status = "err" THEN r
         ELSE ParseLoop(buf, i + 1, Append(records, r.record), symbol, market)

ParseBinaryData(buf, ext, symbol, market) ==
    IF BufferLen(buf, ext) % SIZE # 0
    THEN Failure("InvalidLength")
    ELSE ParseLoop(buf, 1, <<>>, symbol, market)

----------------------------------------------------------------------------
(* Inputs of the decoder.                                                  *)

ArgSymbol == <<"6", "0", "0", "0", "0", "0">>
ArgMarket == "SH"

RawDates == {20240102, 20240101, 20231231, 20240229, 20230229, 20241301, 2024011}

RawPrices == {0, 1, 2, 999999, 1000000, 1000001}

RawRecord(d, o, h, l, c) ==
    [date |-> d, open |-> o, high |-> h, low |-> l, close |-> c,
     amount |-> 1050, volume |-> 100]

\* records for the buffers of several records: every date, prices valid or not
SeriesRecords ==
    {RawRecord(d, 1000, 1100, 900, 1050) : d \in RawDates}
    \cup {RawRecord(20240101, 1000, 900, 1100, 1050),
          RawRecord(20240102, 0, 1100, 900, 1050)}

\* records for the buffers of one record: every combination of prices
PriceRecords ==
    {RawRecord(20240101, o, h, l, c) : o \in RawPrices, h \in RawPrices,
                                       l \in RawPrices, c \in RawPrices}

Buffers ==
    SeqsUpTo(SeriesRecords, MaxRecords) \cup {<<r>> : r \in PriceRecords}

ExtraBytes == {0, 1, 31}

----------------------------------------------------------------------------
(* The decoder as a state machine: the caller holds a buffer and calls     *)
(* parse_binary_data on it.                                                *)

IdleSymbol == path = [dirs |-> <<>>, stem |-> <<>>] /\ extracted = NoValue /\ validated = NoValue

IdleCleaner == rules = <<>> /\ trading_days = {} /\ data = <<>> /\ result = NoValue

IdleParser == buffer = <<>> /\ extra = 0 /\ parsed = NoValue

IdleCalculator == series = <<>> /\ enhanced = NoValue

IdleGather == datasets = <<>> /\ gathered = NoValue

IdleStream == stream_args = NoValue /\ streamed = NoValue

IdleAggregator ==
    aggregations = <<>> /\ samples = <<>> /\ aggregated = NoValue /\ IdleGather /\ IdleStream

IdleOrchestrator == concurrency_limit = 0 /\ semaphore = 0 /\ calls = <<>>

InitParse ==
    /\ buffer \in Buffers
    /\ extra \in ExtraBytes
    /\ parsed = NoValue
    /\ IdleSymbol
    /\ IdleCleaner
    /\ IdleCalculator
    /\ IdleAggregator
    /\ IdleOrchestrator

CallParseBinaryData ==
    /\ parsed' = ParseBinaryData(buffer, extra, ArgSymbol, ArgMarket)
    /\ UNCHANGED <<buffer, extra, symbolVars, cleanerVars, calculatorVars, aggregatorVars, orchestratorVars>>

NextParse == CallParseBinaryData

SpecParse == InitParse /\ [][NextParse]_vars

----------------------------------------------------------------------------
(* Symbol and market derivation: TDXDayParser::extract_symbol_market and   *)
(* ValidationUtils::validate_symbol.                                       *)

\* str::len() counts bytes: an ASCII character is one byte, "é" is two
ByteWidth(c) == IF c = "é" THEN 2 ELSE 1

ByteLen(s) == SumSeq([i \in 1..Len(s) |-> ByteWidth(s[i])])

IsAsciiDigit(c) == c \in {"0", "1", "2", "3", "4", "5", "6", "7", "8", "9"}

\* str::to_lowercase on a directory segment
ToLower(seg) ==
    CASE seg = "SH" -> "sh"
      [] seg = "Sh" -> "sh"
      [] seg = "SZ" -> "sz"
      [] OTHER -> seg

\* path_str.contains("/sh/"): some directory segment of the lowercased path is `code`
ContainsMarket(p, code) == \E i \in 1..Len(p.dirs) : ToLower(p.dirs[i]) = code

ExtractSymbolMarket(p) ==
    IF ByteLen(p.stem) # 6 THEN Failure("InvalidSymbol")
    ELSE IF ContainsMarket(p, "sh") THEN [status |-> "ok", symbol |-> p.stem, market |-> "SH"]
    ELSE IF ContainsMarket(p, "sz") THEN [status |-> "ok", symbol |-> p.stem, market |-> "SZ"]
    ELSE Failure("UnknownMarket")

ValidateSymbol(symbol) ==
    IF ByteLen(symbol) # 6 THEN Failure("InvalidSymbol")
    ELSE IF ~(\A i \in 1..Len(symbol) : IsAsciiDigit(symbol[i])) THEN Failure("InvalidSymbol")
    ELSE [status |-> "ok"]

\* Inputs: absolute paths /<dirs>/<stem>.day
StemChars == {"6", "A", "é"}

Stems == UNION {[1..k -> StemChars] : k \in 1..MaxStem}

DirLists == {<<"vipdoc", "sh", "day">>, <<"vipdoc", "SZ", "day">>,
             <<"data", "day">>, <<"sz", "Sh">>}

InitSymbol ==
    /\ path \in [dirs : DirLists, stem : Stems]
    /\ extracted = NoValue
    /\ validated = NoValue
    /\ IdleParser
    /\ IdleCleaner
    /\ IdleCalculator
    /\ IdleAggregator
    /\ IdleOrchestrator

CallExtractSymbolMarket ==
    /\ extracted' = ExtractSymbolMarket(path)
    /\ UNCHANGED <<path, validated, parserVars, cleanerVars, calculatorVars, aggregatorVars, orchestratorVars>>

CallValidateSymbol ==
    /\ validated' = ValidateSymbol(path.stem)
    /\ UNCHANGED <<path, extracted, parserVars, cleanerVars, calculatorVars, aggregatorVars, orchestratorVars>>

NextSymbol == CallExtractSymbolMarket \/ CallValidateSymbol

SpecSymbol == InitSymbol /\ [][NextSymbol]_vars

----------------------------------------------------------------------------
(* processors/cleaner.rs: the data cleaner.                                *)
(* A TDXDayRecord is [date, symbol, open, high, low, close, volume,        *)
(* amount, market]; prices and amount are in hundredths.  An f64 threshold *)
(* or multiplier is the rational [num, den]; comparisons against it are    *)
(* cross-multiplied.                                                       *)

None == [some |-> FALSE]
Some(x) == [some |-> TRUE, value |-> x]

DefaultStatistics ==
    [outliers_removed |-> 0, missing_values_filled |-> 0, duplicates_removed |-> 0,
     price_inconsistencies |-> 0, range_violations |-> 0]

KnownFields == {"open", "high", "low", "close", "volume", "amount"}

ExtractFieldValue(record, field) ==
    CASE field = "open" -> [status |-> "ok", value |-> record.open]
      [] field = "high" -> [status |-> "ok", value |-> record.high]
      [] field = "low" -> [status |-> "ok", value |-> record.low]
      [] field = "close" -> [status |-> "ok", value |-> record.close]
      [] field = "volume" -> [status |-> "ok", value |-> record.volume]
      [] field = "amount" -> [status |-> "ok", value |-> record.amount]
      [] OTHER -> Failure("UnknownField")

\* extract_field_value(..).unwrap_or(0.0)
ExtractOrZero(record, field) ==
    LET v == ExtractFieldValue(record, field) IN
    IF v.status = "ok" THEN v.value ELSE 0

NeedsFilling(record, field) ==
    CASE field \in {"open", "high", "low", "close"} ->
            record.open <= 0 \/ record.high <= 0 \/ record.low <= 0 \/ record.close <= 0
      [] field = "volume" -> record.volume = 0
      [] field = "amount" -> record.amount <= 0
      [] OTHER -> FALSE

SetFieldValue(record, field, value) ==
    CASE field = "open" -> [record EXCEPT !.open = value]
      [] field = "high" -> [record EXCEPT !.high = value]
      [] field = "low" -> [record EXCEPT !.low = value]
      [] field = "close" -> [record EXCEPT !.close = value]
      [] field = "volume" -> [record EXCEPT !.volume = IF value < 0 THEN 0 ELSE value]
      [] field = "amount" -> [record EXCEPT !.amount = value]
      [] OTHER -> record

\* get_previous_value: scans positions idx-1 down to 1 of the vector
RECURSIVE GetPreviousValue(_, _, _, _)
GetPreviousValue(d, idx, symbol, field) ==
    IF idx <= 1 THEN 0
    ELSE IF d[idx - 1].symbol = symbol /\ ~NeedsFilling(d[idx - 1], field)
         THEN ExtractOrZero(d[idx - 1], field)
         ELSE GetPreviousValue(d, idx - 1, symbol, field)

\* calculate_mean_value; the f64 quotient is kept to whole hundredths
CalculateMeanValue(d, symbol, field) ==
    LET valid == {i \in 1..Len(d) : d[i].symbol = symbol /\ ~NeedsFilling(d[i], field)
                                    /\ ExtractFieldValue(d[i], field).status = "ok"}
        RECURSIVE SumOver(_)
        SumOver(S) == IF S = {} THEN 0
                      ELSE LET i == CHOOSE x \in S : TRUE IN
                           ExtractFieldValue(d[i], field).value + SumOver(S \ {i})
    IN IF Cardinality(valid) > 0 THEN SumOver(valid) \div Cardinality(valid) ELSE 0

(* Sorting.                                                                *)

\* sort_by(partial_cmp) on a vector of numbers
RECURSIVE InsertNumber(_, _)
InsertNumber(sorted, x) ==
    IF sorted = <<>> THEN <<x>>
    ELSE IF x < sorted[Len(sorted)]
         THEN Append(InsertNumber(SubSeq(sorted, 1, Len(sorted) - 1), x), sorted[Len(sorted)])
         ELSE Append(sorted, x)

RECURSIVE SortNumbers(_)
SortNumbers(s) ==
    IF s = <<>> THEN <<>>
    ELSE InsertNumber(SortNumbers(SubSeq(s, 1, Len(s) - 1)), s[Len(s)])

\* indices.sort_by(|&i, &j| d[i].date.cmp(&d[j].date)): stable
RECURSIVE InsertIndexByDate(_, _, _)
InsertIndexByDate(sorted, i, d) ==
    IF sorted = <<>> THEN <<i>>
    ELSE IF DateLess(d[i].date, d[sorted[Len(sorted)]].date)
         THEN Append(InsertIndexByDate(SubSeq(sorted, 1, Len(sorted) - 1), i, d),
                     sorted[Len(sorted)])
         ELSE Append(sorted, i)

RECURSIVE SortIndicesByDate(_, _)
SortIndicesByDate(indices, d) ==
    IF indices = <<>> THEN <<>>
    ELSE InsertIndexByDate(SortIndicesByDate(SubSeq(indices, 1, Len(indices) - 1), d),
                           indices[Len(indices)], d)

Abs(x) == IF x < 0 THEN 0 - x ELSE x

(* remove_outliers and detect_outliers.                                    *)

\* detect_outliers: the set of (1-based) positions flagged as outliers
DetectOutliers(values, method) ==
    LET n == Len(values)
        sorted == SortNumbers(values)
        num == method.num
        den == method.den
    IN
    CASE method.kind = "IQR" ->
            LET q1_index == n \div 4
                q3_index == (3 * n) \div 4
            IN IF q1_index < n /\ q3_index < n
               THEN LET q1 == sorted[q1_index + 1]
                        q3 == sorted[q3_index + 1]
                        iqr == q3 - q1
                    IN {i \in 1..n : \/ values[i] * den < q1 * den - num * iqr
                                     \/ values[i] * den > q3 * den + num * iqr}
               ELSE {}
      [] method.kind = "ZScore" ->
            \* mean = S/n, variance = (n*Q - S*S)/(n*n); |x - mean|/std > num/den
            LET S == SumSeq(values)
                Q == SumSeq([i \in 1..n |-> values[i] * values[i]])
            IN IF n > 0 /\ n * Q - S * S > 0
               THEN {i \in 1..n :
                        den * den * (n * values[i] - S) * (n * values[i] - S)
                            > num * num * (n * Q - S * S)}
               ELSE {}
      [] method.kind = "MedianDeviation" ->
            \* mad = D/n with D the summed distance to the median
            LET median == IF n = 0 THEN 0 ELSE sorted[(n \div 2) + 1]
                D == SumSeq([i \in 1..n |-> Abs(values[i] - median)])
            IN IF n > 0 /\ D > 0
               THEN {i \in 1..n : Abs(values[i] - median) * n * den > num * D}
               ELSE {}

\* the records at the positions outside `drop`, in order
RECURSIVE KeepPositions(_, _, _)
KeepPositions(d, i, drop) ==
    IF i > Len(d) THEN <<>>
    ELSE IF i \in drop THEN KeepPositions(d, i + 1, drop)
         ELSE <<d[i]>> \o KeepPositions(d, i + 1, drop)

RemoveOutliers(d, field, method, statistics) ==
    IF \E i \in 1..Len(d) : ExtractFieldValue(d[i], field).status = "err"
    THEN Failure("UnknownField")
    ELSE LET values == [i \in 1..Len(d) |-> ExtractFieldValue(d[i], field).value]
             outlier_indices == DetectOutliers(values, method)
         IN [status |-> "ok", data |-> KeepPositions(d, 1, outlier_indices),
             statistics |-> statistics]

(* fill_missing_values and fill_price_values.                              *)

\* the volume/amount branch of fill_missing_values, from record i on
RECURSIVE FillVolumeAmount(_, _, _, _, _, _)
FillVolumeAmount(d, i, last_valid_volume, last_valid_amount, filled_data, count) ==
    IF i > Len(d) THEN [data |-> filled_data, filled |-> count]
    ELSE LET record == d[i]
             fillV == record.volume = 0 /\ last_valid_volume.some
             fillA == record.amount = 0 /\ last_valid_amount.some
             r1 == IF fillV THEN [record EXCEPT !.volume = last_valid_volume.value]
                   ELSE record
             r2 == IF fillA THEN [r1 EXCEPT !.amount = last_valid_amount.value] ELSE r1
         IN FillVolumeAmount(d, i + 1,
                IF record.volume = 0 THEN last_valid_volume ELSE Some(record.volume),
                IF record.amount = 0 THEN last_valid_amount ELSE Some(record.amount),
                Append(filled_data, r2),
                count + (IF fillV THEN 1 ELSE 0) + (IF fillA THEN 1 ELSE 0))

\* the symbols of the vector, each once, in order of first appearance
RECURSIVE SymbolsOf(_, _)
SymbolsOf(d, acc) ==
    IF d = <<>> THEN acc
    ELSE SymbolsOf(Tail(d), IF d[1].symbol \in Range(acc) THEN acc
                             ELSE Append(acc, d[1].symbol))

\* the positions of the records of `symbol`, ascending
RECURSIVE IndicesOf(_, _, _)
IndicesOf(d, i, symbol) ==
    IF i > Len(d) THEN <<>>
    ELSE IF d[i].symbol = symbol THEN <<i>> \o IndicesOf(d, i + 1, symbol)
         ELSE IndicesOf(d, i + 1, symbol)

RECURSIVE IndicesNeedingFill(_, _, _)
IndicesNeedingFill(indices, d, field) ==
    IF indices = <<>> THEN <<>>
    ELSE IF NeedsFilling(d[indices[1]], field)
         THEN <<indices[1]>> \o IndicesNeedingFill(Tail(indices), d, field)
         ELSE IndicesNeedingFill(Tail(indices), d, field)

FillValue(d, idx, symbol, field, method) ==
    CASE method = "ForwardFill" -> GetPreviousValue(d, idx, symbol, field)
      [] method = "Mean" -> CalculateMeanValue(d, symbol, field)
      [] OTHER -> 0

\* the loop `for &idx in &indices_to_fill`, which writes into the vector it reads
RECURSIVE FillIndices(_, _, _, _, _)
FillIndices(d, to_fill, symbol, field, method) ==
    IF to_fill = <<>> THEN d
    ELSE LET idx == to_fill[1]
             filled == [d EXCEPT ![idx] =
                          SetFieldValue(d[idx], field,
                                        FillValue(d, idx, symbol, field, method))]
         IN FillIndices(filled, Tail(to_fill), symbol, field, method)

\* the loop `for (symbol, indices) in groups`: a group reads and writes only
\* the records of its own symbol, so the HashMap's iteration order does not
\* show in the outcome
RECURSIVE FillGroups(_, _, _, _, _)
FillGroups(d, symbols, field, method, count) ==
    IF symbols = <<>> THEN [data |-> d, filled |-> count]
    ELSE LET symbol == symbols[1]
             indices == SortIndicesByDate(IndicesOf(d, 1, symbol), d)
             indices_to_fill == IndicesNeedingFill(indices, d, field)
         IN FillGroups(FillIndices(d, indices_to_fill, symbol, field, method),
                       Tail(symbols), field, method, count + Len(indices_to_fill))

FillPriceValues(d, field, method, statistics) ==
    LET r == FillGroups(d, SymbolsOf(d, <<>>), field, method, 0) IN
    [status |-> "ok", data |-> r.data,
     statistics |-> [statistics EXCEPT !.missing_values_filled = @ + r.filled]]

FillMissingValues(d, field, method, statistics) ==
    IF field = "volume" \/ field = "amount"
    THEN LET r == FillVolumeAmount(d, 1, None, None, <<>>, 0) IN
         [status |-> "ok", data |-> r.data,
          statistics |-> [statistics EXCEPT !.missing_values_filled = @ + r.filled]]
    ELSE FillPriceValues(d, field, method, statistics)

(* remove_duplicates.                                                      *)

DigitChar(n) ==
    CASE n = 0 -> "0" [] n = 1 -> "1" [] n = 2 -> "2" [] n = 3 -> "3" [] n = 4 -> "4"
      [] n = 5 -> "5" [] n = 6 -> "6" [] n = 7 -> "7" [] n = 8 -> "8" [] n = 9 -> "9"

\* the decimal digits of n, zero-padded to `width` characters
RECURSIVE Digits(_, _)
Digits(n, width) ==
    IF width = 0 THEN <<>>
    ELSE Append(Digits(n \div 10, width - 1), DigitChar(n % 10))

\* NaiveDate::format("%Y-%m-%d"), for years 0..9999
DateFormat(date) ==
    Digits(date[1], 4) \o <<"-">> \o Digits(date[2], 2) \o <<"-">> \o Digits(date[3], 2)

\* format!("{}_{}", record.symbol, record.date.format("%Y-%m-%d"))
DuplicateKey(record) == record.symbol \o <<"_">> \o DateFormat(record.date)

\* the default-key loop of remove_duplicates, keeping the last record of a
\* key instead of the first
RECURSIVE DedupLoopKeepLast(_, _, _, _, _)
DedupLoopKeepLast(d, i, seen, unique_data, removed_count) ==
    IF i > Len(d) THEN [data |-> unique_data, removed |-> removed_count]
    ELSE LET key == DuplicateKey(d[i]) IN
         IF key \notin seen
         THEN DedupLoopKeepLast(d, i + 1, seen \cup {key}, Append(unique_data, d[i]),
                                removed_count)
         ELSE DedupLoopKeepLast(d, i + 1, seen,
                  [k \in 1..Len(unique_data) |->
                      IF DuplicateKey(unique_data[k]) = key THEN d[i] ELSE unique_data[k]],
                  removed_count + 1)

\* the default-key loop of remove_duplicates, from record i on
RECURSIVE DedupLoop(_, _, _, _, _)
DedupLoop(d, i, seen, unique_data, removed_count) ==
    IF i > Len(d) THEN [data |-> unique_data, removed |-> removed_count]
    ELSE LET key == DuplicateKey(d[i]) IN
         IF key \notin seen
         THEN DedupLoop(d, i + 1, seen \cup {key}, Append(unique_data, d[i]), removed_count)
         ELSE DedupLoop(d, i + 1, seen, unique_data, removed_count + 1)

RemoveDuplicates(d, keys) ==
    IF keys = <<>>
    THEN DedupLoop(d, 1, {}, <<>>, 0)
    ELSE [data |-> d, removed |-> 0]

(* validate_price_consistency.                                             *)

\* the loop body of validate_price_consistency without the high/low swap
FixRecordNoSwap(record) ==
    LET r2 == IF record.open > record.high THEN [record EXCEPT !.open = record.high]
              ELSE record
        r3 == IF r2.open < r2.low THEN [r2 EXCEPT !.open = r2.low] ELSE r2
        r4 == IF r3.close > r3.high THEN [r3 EXCEPT !.close = r3.high] ELSE r3
        r5 == IF r4.close < r4.low THEN [r4 EXCEPT !.close = r4.low] ELSE r4
    IN [record |-> r5,
        needs_fix |-> \/ record.open > record.high \/ r2.open < r2.low
                      \/ r3.close > r3.high \/ r4.close < r4.low]

\* the loop body of validate_price_consistency: the repaired record and needs_fix
FixRecord(record) ==
    LET r1 == IF record.high < record.low
              THEN [record EXCEPT !.high = record.low, !.low = record.high]
              ELSE record
        r2 == IF r1.open > r1.high THEN [r1 EXCEPT !.open = r1.high] ELSE r1
        r3 == IF r2.open < r2.low THEN [r2 EXCEPT !.open = r2.low] ELSE r2
        r4 == IF r3.close > r3.high THEN [r3 EXCEPT !.close = r3.high] ELSE r3
        r5 == IF r4.close < r4.low THEN [r4 EXCEPT !.close = r4.low] ELSE r4
    IN [record |-> r5,
        needs_fix |-> \/ record.high < record.low \/ r1.open > r1.high \/ r2.open < r2.low
                      \/ r3.close > r3.high \/ r4.close < r4.low]

\* validate_price_consistency counting every swap and clamp instead of every
\* repaired record
ValidatePriceConsistencyPerFix(d) ==
    LET Fixes(record) ==
            LET r1 == IF record.high < record.low
                      THEN [record EXCEPT !.high = record.low, !.low = record.high]
                      ELSE record
                r2 == IF r1.open > r1.high THEN [r1 EXCEPT !.open = r1.high] ELSE r1
                r3 == IF r2.open < r2.low THEN [r2 EXCEPT !.open = r2.low] ELSE r2
                r4 == IF r3.close > r3.high THEN [r3 EXCEPT !.close = r3.high] ELSE r3
            IN (IF record.high < record.low THEN 1 ELSE 0)
               + (IF r1.open > r1.high \/ r2.open < r2.low THEN 1 ELSE 0)
               + (IF r3.close > r3.high \/ r4.close < r4.low THEN 1 ELSE 0)
    IN [data |-> [i \in 1..Len(d) |-> FixRecord(d[i]).record],
        fixed |-> SumSeq([i \in 1..Len(d) |-> Fixes(d[i])])]

ValidatePriceConsistency(d) ==
    [data |-> [i \in 1..Len(d) |-> FixRecord(d[i]).record],
     fixed |-> Cardinality({i \in 1..Len(d) : FixRecord(d[i]).needs_fix})]

(* validate_range and remove_non_trading_days.                             *)

\* validate_range reporting every record it was given as a violation
ValidateRangeCountingAll(d, field, min, max) ==
    IF \E i \in 1..Len(d) : ExtractFieldValue(d[i], field).status = "err"
    THEN Failure("UnknownField")
    ELSE LET invalid == {i \in 1..Len(d) :
                            LET value == ExtractFieldValue(d[i], field).value IN
                            \/ min.some /\ value < min.value
                            \/ max.some /\ value > max.value}
         IN [status |-> "ok", data |-> KeepPositions(d, 1, invalid),
             violations |-> Len(d)]

ValidateRange(d, field, min, max) ==
    IF \E i \in 1..Len(d) : ExtractFieldValue(d[i], field).status = "err"
    THEN Failure("UnknownField")
    ELSE LET invalid == {i \in 1..Len(d) :
                            LET value == ExtractFieldValue(d[i], field).value IN
                            \/ min.some /\ value < min.value
                            \/ max.some /\ value > max.value}
         IN [status |-> "ok", data |-> KeepPositions(d, 1, invalid),
             violations |-> Cardinality(invalid)]

RemoveNonTradingDays(d, tdays) ==
    LET absent == {i \in 1..Len(d) : d[i].date \notin tdays} IN
    [data |-> KeepPositions(d, 1, absent), removed |-> Cardinality(absent)]

(* clean.                                                                  *)

\* the entry pushed to applied_rules
RuleLabel(rule) ==
    CASE rule.type = "RemoveOutliers" -> <<"RemoveOutliers(", rule.field, ")">>
      [] rule.type = "FillMissing" -> <<"FillMissing(", rule.field, ")">>
      [] rule.type = "ValidateRange" -> <<"ValidateRange(", rule.field, ")">>
      [] OTHER -> <<rule.type>>

\* one arm of the match in clean: the new current_data and statistics, or the error
ApplyRule(rule, current_data, statistics, tdays) ==
    CASE rule.type = "RemoveOutliers" ->
            RemoveOutliers(current_data, rule.field, rule.method, statistics)
      [] rule.type = "FillMissing" ->
            FillMissingValues(current_data, rule.field, rule.method, statistics)
      [] rule.type = "RemoveDuplicates" ->
            LET r == RemoveDuplicates(current_data, rule.keys) IN
            [status |-> "ok", data |-> r.data,
             statistics |-> [statistics EXCEPT !.duplicates_removed = @ + r.removed]]
      [] rule.type = "ValidatePriceConsistency" ->
            LET r == ValidatePriceConsistency(current_data) IN
            [status |-> "ok", data |-> r.data,
             statistics |-> [statistics EXCEPT !.price_inconsistencies = @ + r.fixed]]
      [] rule.type = "ValidateRange" ->
            LET r == ValidateRange(current_data, rule.field, rule.min, rule.max) IN
            IF r.status = "err" THEN r
            ELSE [status |-> "ok", data |-> r.data,
                  statistics |-> [statistics EXCEPT !.range_violations = @ + r.violations]]
      [] rule.type = "RemoveNonTradingDays" ->
            LET r == RemoveNonTradingDays(current_data, tdays) IN
            [status |-> "ok", data |-> r.data, statistics |-> statistics]

\* the value clean returns after its loop.  `steps` is not part of
\* CleaningResult: it records, per loop iteration, the rule, the current_data
\* the rule was given (seen), the current_data it left (kept) and the
\* statistics after it.
Finish(original_count, current_data, applied_rules, statistics, steps) ==
    [status |-> "ok",
     original_count |-> original_count,
     cleaned_count |-> Len(current_data),
     removed_count |-> original_count - Len(current_data),
     applied_rules |-> applied_rules,
     statistics |-> statistics,
     steps |-> steps]

\* the loop of clean handing every rule the vector the first rule was given
RECURSIVE CleanLoopOnOriginal(_, _, _, _, _, _, _, _)
CleanLoopOnOriginal(rs, tdays, i, original_count, current_data, applied_rules, statistics, steps) ==
    IF i > Len(rs)
    THEN Finish(original_count, current_data, applied_rules, statistics, steps)
    ELSE LET given == IF steps = <<>> THEN current_data ELSE steps[1].seen
             r == ApplyRule(rs[i], given, statistics, tdays) IN
         IF r.status = "err" THEN r
         ELSE CleanLoopOnOriginal(rs, tdays, i + 1, original_count, r.data,
                  Append(applied_rules, RuleLabel(rs[i])), r.statistics,
                  Append(steps, [rule |-> rs[i], seen |-> given, kept |-> r.data,
                                 statistics |-> r.statistics]))

\* the loop `for rule in &self.rules` of clean, from rule i on
RECURSIVE CleanLoop(_, _, _, _, _, _, _, _)
CleanLoop(rs, tdays, i, original_count, current_data, applied_rules, statistics, steps) ==
    IF i > Len(rs)
    THEN Finish(original_count, current_data, applied_rules, statistics, steps)
    ELSE LET r == ApplyRule(rs[i], current_data, statistics, tdays) IN
         IF r.status = "err" THEN r
         ELSE CleanLoop(rs, tdays, i + 1, original_count, r.data,
                  Append(applied_rules, RuleLabel(rs[i])), r.statistics,
                  Append(steps, [rule |-> rs[i], seen |-> current_data, kept |-> r.data,
                                 statistics |-> r.statistics]))

Clean(rs, tdays, d) ==
    CleanLoop(rs, tdays, 1, Len(d), d, <<>>, DefaultStatistics, <<>>)

----------------------------------------------------------------------------
(* The cleaner as a state machine: a DataCleaner is built by new, add_rule *)
(* and set_trading_days, and clean is called on the caller's vector.  A    *)
(* change of the configuration discards the result of an earlier clean.    *)

AddRule(rule, limit) ==
    /\ Len(rules) < limit
    /\ rules' = Append(rules, rule)
    /\ result' = NoValue
    /\ UNCHANGED <<trading_days, data, parserVars, symbolVars, calculatorVars, aggregatorVars, orchestratorVars>>

SetTradingDays(days) ==
    /\ trading_days' = days
    /\ result' = NoValue
    /\ UNCHANGED <<rules, data, parserVars, symbolVars, calculatorVars, aggregatorVars, orchestratorVars>>

CallClean ==
    /\ result' = Clean(rules, trading_days, data)
    /\ UNCHANGED <<rules, trading_days, data, parserVars, symbolVars,
                   calculatorVars, aggregatorVars, orchestratorVars>>

\* DataCleaner::new, with the vector the caller is going to clean
InitCleaner(inputs) ==
    /\ rules = <<>>
    /\ trading_days = {}
    /\ data \in inputs
    /\ result = NoValue
    /\ IdleParser
    /\ IdleSymbol
    /\ IdleCalculator
    /\ IdleAggregator
    /\ IdleOrchestrator

Day1 == <<2024, 1, 1>>
Day2 == <<2024, 1, 2>>

Bar(symbol, date, open, high, low, close, volume) ==
    [date |-> date, symbol |-> symbol, open |-> open, high |-> high, low |-> low,
     close |-> close, volume |-> volume, amount |-> 1050 * volume, market |-> "SH"]

MedianDeviation2 == [kind |-> "MedianDeviation", num |-> 2, den |-> 1]

RuleRemoveDuplicates(keys) == [type |-> "RemoveDuplicates", keys |-> keys]
RuleValidateRange(field, min, max) ==
    [type |-> "ValidateRange", field |-> field, min |-> min, max |-> max]
RuleFillMissing(field, method) == [type |-> "FillMissing", field |-> field, method |-> method]
RuleRemoveOutliers(field, method) ==
    [type |-> "RemoveOutliers", field |-> field, method |-> method, threshold |-> 3]
RuleValidatePriceConsistency == [type |-> "ValidatePriceConsistency"]
RuleRemoveNonTradingDays == [type |-> "RemoveNonTradingDays"]

(* Rule lists of every kind on a short vector.                             *)

CleanRecords ==
    {Bar(<<"A">>, Day1, 1000, 1100, 900, 1050, 100),
     Bar(<<"A">>, Day2, 1000, 1100, 900, 1050, 100),
     Bar(<<"A">>, Day1, 1000, 1100, 900, 0, 100)}

CleanRules ==
    {RuleRemoveDuplicates(<<>>),
     RuleValidateRange("close", Some(1), Some(1000000)),
     RuleRemoveNonTradingDays,
     RuleFillMissing("close", "ForwardFill"),
     RuleFillMissing("price", "ForwardFill"),
     RuleValidateRange("price", Some(1), None),
     RuleRemoveOutliers("price", MedianDeviation2)}

InitClean == InitCleaner(SeqsUpTo(CleanRecords, MaxData))

NextClean ==
    \/ \E rule \in CleanRules : AddRule(rule, MaxRules)
    \/ \E days \in {{}, {Day1}} : SetTradingDays(days)
    \/ CallClean

SpecClean == InitClean /\ [][NextClean]_vars

(* De-duplication: records that differ in symbol, date and volume.         *)

DedupRecords ==
    {Bar(symbol, date, 1000, 1100, 900, 1050, volume) :
        symbol \in {<<"A">>, <<"B">>}, date \in {Day1, Day2}, volume \in {100, 200}}

DedupRules == {RuleRemoveDuplicates(<<>>), RuleRemoveDuplicates(<<"symbol", "date">>)}

InitDedup == InitCleaner(SeqsUpTo(DedupRecords, MaxDedupData))

NextDedup ==
    \/ \E rule \in DedupRules : AddRule(rule, MaxDedupRules)
    \/ CallClean

SpecDedup == InitDedup /\ [][NextDedup]_vars

(* Price consistency: records with every arrangement of four prices.       *)

PriceLevels == {1, 2, 3, 4}

ConsistencyRecords ==
    {Bar(<<"A">>, Day1, open, high, low, close, 100) :
        open \in PriceLevels, high \in PriceLevels, low \in PriceLevels,
        close \in PriceLevels}

InitConsistency == InitCleaner(SeqsUpTo(ConsistencyRecords, MaxPriceData))

NextConsistency ==
    \/ AddRule(RuleValidatePriceConsistency, MaxPasses)
    \/ CallClean

SpecConsistency == InitConsistency /\ [][NextConsistency]_vars

(* Counting repairs: consistent records and records needing one, two or   *)
(* three repairs, with a range rule that drops records before or after.    *)

TallyRecords ==
    {Bar(<<"A">>, Day1, 1000, 1100, 900, 1050, 100),
     Bar(<<"A">>, Day1, 1000, 800, 1200, 1000, 100),
     Bar(<<"A">>, Day1, 1300, 800, 1200, 700, 100),
     Bar(<<"A">>, Day1, 1200, 1100, 900, 1000, 100),
     Bar(<<"A">>, Day1, 1000, 1100, 900, 800, 100)}

TallyRules == {RuleValidatePriceConsistency, RuleValidateRange("close", Some(900), None)}

InitTally == InitCleaner(SeqsUpTo(TallyRecords, MaxTallyData))

NextTally ==
    \/ \E rule \in TallyRules : AddRule(rule, MaxTallyRules)
    \/ CallClean

SpecTally == InitTally /\ [][NextTally]_vars

(* Filling: two symbols, records out of date order, records whose close,   *)
(* open or volume is missing.                                              *)

Day3 == <<2024, 1, 3>>

FillRecords ==
    {Bar(<<"A">>, Day1, 1000, 1100, 900, 1050, 100),
     Bar(<<"A">>, Day2, 1000, 1100, 900, 0, 200),
     Bar(<<"A">>, Day3, 0, 1200, 900, 1150, 0),
     Bar(<<"B">>, Day1, 2000, 2100, 1900, 2050, 300),
     Bar(<<"B">>, Day2, 2000, 2100, 1900, 0, 0)}

FillRules ==
    {RuleFillMissing("close", "ForwardFill"),
     RuleFillMissing("close", "Mean"),
     RuleFillMissing("volume", "ForwardFill")}

InitFill == InitCleaner(SeqsUpTo(FillRecords, MaxFillData))

NextFill ==
    \/ \E rule \in FillRules : AddRule(rule, MaxFillRules)
    \/ CallClean

SpecFill == InitFill /\ [][NextFill]_vars

(* Outliers: closes of which one lies far from the others, with rules that *)
(* drop records for other reasons.                                         *)

OutlierRecords ==
    {Bar(<<"A">>, Day1, 1000, 1100, 900, 1000, 100),
     Bar(<<"A">>, Day2, 1000, 1100, 900, 1050, 100),
     Bar(<<"A">>, Day3, 1000, 5000, 900, 5000, 100)}

OutlierRules ==
    {RuleRemoveOutliers("close", MedianDeviation2),
     RuleRemoveOutliers("close", [kind |-> "ZScore", num |-> 1, den |-> 1]),
     RuleRemoveDuplicates(<<>>),
     RuleValidateRange("close", Some(1050), None)}

InitOutlier == InitCleaner(SeqsUpTo(OutlierRecords, MaxOutlierData))

NextOutlier ==
    \/ \E rule \in OutlierRules : AddRule(rule, MaxOutlierRules)
    \/ CallClean

SpecOutlier == InitOutlier /\ [][NextOutlier]_vars

----------------------------------------------------------------------------
(* The indicator engine (processors/calculator.rs).  Averages, percentages *)
(* and deviations are f64 in the code; here each is the exact quotient or  *)
(* root cut to a whole number of the unit of its operands (hundredths for  *)
(* prices, hundredths of a percent for percentages).  Positions i are      *)
(* 0-based as in the code; s[a..=b] is Slice(s, a, b).                     *)

Slice(s, a, b) == SubSeq(s, a + 1, b + 1)

\* IndicatorCalculator::new
DefaultWindowSizes == <<5, 10, 20, 60>>

\* IndicatorValues::default()
DefaultIndicatorValues ==
    [ma5 |-> None, ma10 |-> None, ma20 |-> None, ma60 |-> None, volume_ma5 |-> None,
     change_percent |-> None, amplitude |-> None, rsi |-> None, macd |-> None,
     bollinger |-> None, indicators |-> <<>>]

CalculateMa(prices) ==
    IF prices = <<>> THEN 0 ELSE SumSeq(prices) \div Len(prices)

\* calculate_rsi: with G, L the summed gains and losses of the n-1 changes,
\* avg_gain / avg_loss = G / L and 100 - 100 / (1 + rs) = 100 G / (G + L)
CalculateRsi(closes) ==
    IF Len(closes) < 2 THEN 5000
    ELSE LET change == [k \in 1..(Len(closes) - 1) |-> closes[k + 1] - closes[k]]
             gains == SumSeq([k \in 1..Len(change) |->
                                 IF change[k] > 0 THEN change[k] ELSE 0])
             losses == SumSeq([k \in 1..Len(change) |->
                                  IF change[k] > 0 THEN 0 ELSE 0 - change[k]])
         IN IF losses = 0 THEN 10000
            ELSE (10000 * gains) \div (gains + losses)

\* the loop of calculate_ema from value k on; multiplier = 2 / (period + 1)
RECURSIVE EmaLoop(_, _, _, _)
EmaLoop(values, k, period, ema) ==
    IF k > Len(values) THEN ema
    ELSE EmaLoop(values, k + 1, period,
                 (2 * values[k] + (period - 1) * ema) \div (period + 1))

CalculateEma(values, period) ==
    IF values = <<>> THEN 0 ELSE EmaLoop(values, 2, period, values[1])

\* the loop that builds dif_values in calculate_macd, from offset i on
RECURSIVE DifValues(_, _)
DifValues(closes, i) ==
    IF i >= Len(closes) THEN <<>>
    ELSE LET current_closes == Slice(closes, i, Len(closes) - 1) IN
         IF Len(current_closes) >= 12 /\ Len(current_closes) >= 26
         THEN <<CalculateEma(current_closes, 12) - CalculateEma(current_closes, 26)>>
              \o DifValues(closes, i + 1)
         ELSE DifValues(closes, i + 1)

CalculateMacd(closes) ==
    IF Len(closes) < 26 THEN None
    ELSE LET dif == CalculateEma(closes, 12) - CalculateEma(closes, 26)
             dif_values == DifValues(closes, 0)
             signal == IF Len(dif_values) >= 9 THEN CalculateEma(dif_values, 9) ELSE 0
         IN Some([dif |-> dif, signal |-> signal, histogram |-> dif - signal])

\* f64::sqrt cut to a whole number
RECURSIVE SqrtFrom(_, _)
SqrtFrom(x, r) == IF (r + 1) * (r + 1) > x THEN r ELSE SqrtFrom(x, r + 1)

CalculateBollingerBands(closes) ==
    IF Len(closes) < 20 THEN None
    ELSE LET ma == CalculateMa(closes)
             variance == SumSeq([k \in 1..Len(closes) |->
                                    (closes[k] - ma) * (closes[k] - ma)]) \div Len(closes)
             std_dev == SqrtFrom(variance, 0)
         IN Some([upper |-> ma + 2 * std_dev, middle |-> ma, lower |-> ma - 2 * std_dev,
                  width |-> 4 * std_dev])

\* the loop `for &window_size in &self.window_sizes` admitting a window one
\* position late
RECURSIVE WindowLoopLate(_, _, _, _, _)
WindowLoopLate(ws, i, closes, volumes, indicator_values) ==
    IF ws = <<>> THEN indicator_values
    ELSE LET window_size == ws[1]
             ma == CalculateMa(Slice(closes, i - window_size + 1, i))
             vol_ma == CalculateMa(Slice(volumes, i - window_size + 1, i))
             v1 == IF i >= window_size
                   THEN CASE window_size = 5 -> [indicator_values EXCEPT !.ma5 = Some(ma)]
                          [] window_size = 10 -> [indicator_values EXCEPT !.ma10 = Some(ma)]
                          [] window_size = 20 -> [indicator_values EXCEPT !.ma20 = Some(ma)]
                          [] window_size = 60 -> [indicator_values EXCEPT !.ma60 = Some(ma)]
                          [] OTHER -> indicator_values
                   ELSE indicator_values
             v2 == IF i >= window_size /\ window_size = 5
                   THEN [v1 EXCEPT !.volume_ma5 = Some(vol_ma)]
                   ELSE v1
         IN WindowLoopLate(Tail(ws), i, closes, volumes, v2)

\* the loop `for &window_size in &self.window_sizes` at position i
RECURSIVE WindowLoop(_, _, _, _, _)
WindowLoop(ws, i, closes, volumes, indicator_values) ==
    IF ws = <<>> THEN indicator_values
    ELSE LET window_size == ws[1]
             ma == CalculateMa(Slice(closes, i - window_size + 1, i))
             vol_ma == CalculateMa(Slice(volumes, i - window_size + 1, i))
             v1 == IF i >= window_size - 1
                   THEN CASE window_size = 5 -> [indicator_values EXCEPT !.ma5 = Some(ma)]
                          [] window_size = 10 -> [indicator_values EXCEPT !.ma10 = Some(ma)]
                          [] window_size = 20 -> [indicator_values EXCEPT !.ma20 = Some(ma)]
                          [] window_size = 60 -> [indicator_values EXCEPT !.ma60 = Some(ma)]
                          [] OTHER -> indicator_values
                   ELSE indicator_values
             v2 == IF i >= window_size - 1 /\ window_size = 5
                   THEN [v1 EXCEPT !.volume_ma5 = Some(vol_ma)]
                   ELSE v1
         IN WindowLoop(Tail(ws), i, closes, volumes, v2)

\* the indicators at index i when calculate_macd is given all the closes up to i
IndicatorsAtWholeHistory(i, closes, highs, lows, volumes, window_sizes) ==
    LET v1 == WindowLoop(window_sizes, i, closes, volumes, DefaultIndicatorValues)
        v2 == IF i >= 1
              THEN [v1 EXCEPT
                      !.change_percent =
                          Some(((closes[i + 1] - closes[i]) * 10000) \div closes[i]),
                      !.amplitude =
                          Some(((highs[i + 1] - lows[i + 1]) * 10000) \div closes[i])]
              ELSE v1
        v3 == IF i >= 19
              THEN [v2 EXCEPT !.rsi = Some(CalculateRsi(Slice(closes, i - 19, i)))]
              ELSE v2
        v4 == IF i >= 25
              THEN [v3 EXCEPT !.macd = CalculateMacd(Slice(closes, 0, i))]
              ELSE v3
    IN IF i >= 19
       THEN [v4 EXCEPT !.bollinger = CalculateBollingerBands(Slice(closes, i - 19, i))]
       ELSE v4

\* the body of the loop `for i in 0..time_series.len()` of
\* calculate_symbol_indicators
IndicatorsAt(i, closes, highs, lows, volumes, window_sizes) ==
    LET v1 == WindowLoop(window_sizes, i, closes, volumes, DefaultIndicatorValues)
        v2 == IF i >= 1
              THEN [v1 EXCEPT
                      !.change_percent =
                          Some(((closes[i + 1] - closes[i]) * 10000) \div closes[i]),
                      !.amplitude =
                          Some(((highs[i + 1] - lows[i + 1]) * 10000) \div closes[i])]
              ELSE v1
        v3 == IF i >= 19
              THEN [v2 EXCEPT !.rsi = Some(CalculateRsi(Slice(closes, i - 19, i)))]
              ELSE v2
        v4 == IF i >= 25
              THEN [v3 EXCEPT !.macd = CalculateMacd(Slice(closes, i - 25, i))]
              ELSE v3
    IN IF i >= 19
       THEN [v4 EXCEPT !.bollinger = CalculateBollingerBands(Slice(closes, i - 19, i))]
       ELSE v4

CalculateSymbolIndicators(time_series, window_sizes) ==
    LET closes == [k \in 1..Len(time_series) |-> time_series[k].close]
        highs == [k \in 1..Len(time_series) |-> time_series[k].high]
        lows == [k \in 1..Len(time_series) |-> time_series[k].low]
        volumes == [k \in 1..Len(time_series) |-> time_series[k].volume]
    IN [k \in 1..Len(time_series) |->
           Some(IndicatorsAt(k - 1, closes, highs, lows, volumes, window_sizes))]

\* EnhancedDayRecord::from_record
FromRecord(record, indicators) == [base_record |-> record, indicators |-> indicators]

\* the loop that merges one symbol's indicators with its records, from
\* position k on: `if let Some(Some(indicator_values)) = ...get(i).cloned()`
RECURSIVE MergeLoop(_, _, _)
MergeLoop(time_series, calculated_indicators, k) ==
    IF k > Len(time_series) THEN <<>>
    ELSE IF k <= Len(calculated_indicators) /\ calculated_indicators[k].some
         THEN <<FromRecord(time_series[k], calculated_indicators[k].value)>>
              \o MergeLoop(time_series, calculated_indicators, k + 1)
         ELSE MergeLoop(time_series, calculated_indicators, k + 1)

EnhanceSeries(time_series, window_sizes) ==
    MergeLoop(time_series, CalculateSymbolIndicators(time_series, window_sizes), 1)

\* the loop `for (symbol, indices) in groups` of calculate_all_indicators
\* without the sort of the indices by date
RECURSIVE GroupLoopUnsorted(_, _, _)
GroupLoopUnsorted(d, window_sizes, order) ==
    IF order = <<>> THEN <<>>
    ELSE LET indices == IndicesOf(d, 1, order[1])
             time_series == [k \in 1..Len(indices) |-> d[indices[k]]]
         IN EnhanceSeries(time_series, window_sizes)
            \o GroupLoopUnsorted(d, window_sizes, Tail(order))

\* the loop `for (symbol, indices) in groups` of calculate_all_indicators;
\* `order` is the order in which the HashMap yields its keys
RECURSIVE GroupLoop(_, _, _)
GroupLoop(d, window_sizes, order) ==
    IF order = <<>> THEN <<>>
    ELSE LET indices == IndicesOf(d, 1, order[1])
             sorted_indices == SortIndicesByDate(indices, d)
             time_series == [k \in 1..Len(sorted_indices) |-> d[sorted_indices[k]]]
         IN EnhanceSeries(time_series, window_sizes)
            \o GroupLoop(d, window_sizes, Tail(order))

CalculateAllIndicators(d, window_sizes, order) ==
    [status |-> "ok", call |-> "calculate_all_indicators",
     records |-> GroupLoop(d, window_sizes, order)]

\* the bytes of the characters that symbols are written with
ByteOf(c) ==
    CASE c = "0" -> 48 [] c = "1" -> 49 [] c = "2" -> 50 [] c = "3" -> 51 [] c = "4" -> 52
      [] c = "5" -> 53 [] c = "6" -> 54 [] c = "7" -> 55 [] c = "8" -> 56 [] c = "9" -> 57
      [] c = "A" -> 65 [] c = "B" -> 66 [] c = "C" -> 67

\* a.cmp(b) == Less on str: bytewise lexicographic, a proper prefix first
RECURSIVE SymbolLess(_, _)
SymbolLess(a, b) ==
    IF b = <<>> THEN FALSE
    ELSE IF a = <<>> THEN TRUE
    ELSE IF ByteOf(a[1]) # ByteOf(b[1]) THEN ByteOf(a[1]) < ByteOf(b[1])
    ELSE SymbolLess(Tail(a), Tail(b))

\* a.date().cmp(&b.date()).then(a.symbol().cmp(b.symbol())) == Less
EnhancedLess(a, b) ==
    \/ DateLess(a.base_record.date, b.base_record.date)
    \/ /\ a.base_record.date = b.base_record.date
       /\ SymbolLess(a.base_record.symbol, b.base_record.symbol)

\* all_records.sort_by(..): stable
RECURSIVE InsertEnhanced(_, _)
InsertEnhanced(sorted, r) ==
    IF sorted = <<>> THEN <<r>>
    ELSE IF EnhancedLess(r, sorted[Len(sorted)])
         THEN Append(InsertEnhanced(SubSeq(sorted, 1, Len(sorted) - 1), r),
                     sorted[Len(sorted)])
         ELSE Append(sorted, r)

RECURSIVE SortEnhanced(_)
SortEnhanced(s) ==
    IF s = <<>> THEN <<>>
    ELSE InsertEnhanced(SortEnhanced(SubSeq(s, 1, Len(s) - 1)), s[Len(s)])

\* the per-symbol closures of calculate_parallel, their results in the order
\* `order` in which collect delivers them, extended into all_records
RECURSIVE ParallelGroups(_, _, _)
ParallelGroups(d, window_sizes, order) ==
    IF order = <<>> THEN <<>>
    ELSE LET indices == IndicesOf(d, 1, order[1])
             records == [k \in 1..Len(indices) |-> d[indices[k]]]
             sorted_records == SortByDate(records)
         IN EnhanceSeries(sorted_records, window_sizes)
            \o ParallelGroups(d, window_sizes, Tail(order))

\* calculate_parallel leaving all_records in the order of arrival
CalculateParallelUnsorted(d, window_sizes, order) ==
    [status |-> "ok", call |-> "calculate_parallel",
     records |-> ParallelGroups(d, window_sizes, order)]

CalculateParallel(d, window_sizes, order) ==
    [status |-> "ok", call |-> "calculate_parallel",
     records |-> SortEnhanced(ParallelGroups(d, window_sizes, order))]

(* The calculator as a state machine: calculate_all_indicators and         *)
(* calculate_parallel are called on the caller's slice; the order in which *)
(* a HashMap yields its groups, and in which the results of the workers    *)
(* arrive, is any order of the symbols.                                    *)

Symbols(d) == {d[k].symbol : k \in 1..Len(d)}

Orders(S) ==
    {order \in [1..Cardinality(S) -> S] :
        \A a \in 1..Cardinality(S) : \A b \in 1..Cardinality(S) :
            order[a] = order[b] => a = b}

CallCalculateAllIndicators ==
    /\ \E order \in Orders(Symbols(series)) :
          enhanced' = CalculateAllIndicators(series, DefaultWindowSizes, order)
    /\ UNCHANGED <<series, parserVars, symbolVars, cleanerVars, aggregatorVars, orchestratorVars>>

CallCalculateParallel ==
    /\ \E order \in Orders(Symbols(series)) :
          enhanced' = CalculateParallel(series, DefaultWindowSizes, order)
    /\ UNCHANGED <<series, parserVars, symbolVars, cleanerVars, aggregatorVars, orchestratorVars>>

NextCalculator == CallCalculateAllIndicators \/ CallCalculateParallel

\* IndicatorCalculator::new, with the slice the caller is going to pass
InitCalculator(inputs) ==
    /\ series \in inputs
    /\ enhanced = NoValue
    /\ IdleParser
    /\ IdleSymbol
    /\ IdleCleaner
    /\ IdleAggregator
    /\ IdleOrchestrator

(* One symbol over many days: date-sorted series of every length up to     *)
(* MaxSeries, their closes flat, rising, falling or alternating.           *)

\* the k-th day (0-based) of a calendar of 28-day months
DateAt(k) == <<2020 + (k \div 336), 1 + ((k \div 28) % 12), 1 + (k % 28)>>

Shapes == {"flat", "rising", "falling", "alternating"}

CloseAt(shape, k) ==
    CASE shape = "flat" -> 1000
      [] shape = "rising" -> 1000 + 3 * k
      [] shape = "falling" -> 2000 - 7 * k
      [] shape = "alternating" -> 1000 + 50 * (k % 2) + (k % 3)

DailySeries(shape, n) ==
    [k \in 1..n |->
        LET close == CloseAt(shape, k - 1) IN
        [date |-> DateAt(k - 1), symbol |-> <<"6", "0", "0", "0", "0", "0">>,
         open |-> close - 5, high |-> close + 10, low |-> close - 10, close |-> close,
         volume |-> 1000 + 10 * (k % 4), amount |-> 1050 * (1000 + 10 * (k % 4)),
         market |-> "SH"]]

InitIndicators == InitCalculator({DailySeries(shape, n) : shape \in Shapes, n \in 0..MaxSeries})

SpecIndicators == InitIndicators /\ [][NextCalculator]_vars

(* Several symbols in any order: short slices that mix two symbols, repeat *)
(* dates and are not date-sorted.                                          *)

MixedRecords ==
    {Bar(symbol, date, 1000, 1100, 900, close, 100) :
        symbol \in {<<"A">>, <<"B">>}, date \in {Day1, Day2}, close \in {1000, 1050}}

InitMixed == InitCalculator(SeqsUpTo(MixedRecords, MaxMixed))

SpecMixed == InitMixed /\ [][NextCalculator]_vars

----------------------------------------------------------------------------
(* The aggregator (processors/aggregator.rs).  A rule is a record with a   *)
(* type, its parameters and a function; a function is a record with a kind *)
(* and its fields.  Values are cut to whole units as in the indicator      *)
(* engine.  The timestamp of a result is the clock's and is left out.      *)

\* extract_field_value of the aggregator
AggregatorFieldValue(record, field) ==
    CASE field = "open" -> [status |-> "ok", value |-> record.open]
      [] field = "high" -> [status |-> "ok", value |-> record.high]
      [] field = "low" -> [status |-> "ok", value |-> record.low]
      [] field = "close" -> [status |-> "ok", value |-> record.close]
      [] field = "volume" -> [status |-> "ok", value |-> record.volume]
      [] field = "amount" -> [status |-> "ok", value |-> record.amount]
      [] OTHER -> Failure("UnknownField")

\* records.iter().map(extract_field_value).collect::<Result<Vec<f64>>>()
FieldValues(records, field) ==
    IF \E k \in 1..Len(records) : AggregatorFieldValue(records[k], field).status = "err"
    THEN Failure("UnknownField")
    ELSE [status |-> "ok",
          values |-> [k \in 1..Len(records) |->
                         AggregatorFieldValue(records[k], field).value]]

\* fold(f64::MIN, max) and fold(f64::MAX, min) over a non-empty vector
MaxOf(values) == CHOOSE x \in Range(values) : \A y \in Range(values) : y <= x
MinOf(values) == CHOOSE x \in Range(values) : \A y \in Range(values) : x <= y

\* the population variance of a non-empty vector
VarianceOf(values) ==
    LET mean == SumSeq(values) \div Len(values) IN
    SumSeq([k \in 1..Len(values) |-> (values[k] - mean) * (values[k] - mean)])
        \div Len(values)

\* (n as f64).log2() cut to a whole number, n >= 1
RECURSIVE Log2(_)
Log2(n) == IF n < 2 THEN 0 ELSE 1 + Log2(n \div 2)

\* the loop of the WeightedMean arm from record k on
RECURSIVE WeightedLoop(_, _, _, _, _, _)
WeightedLoop(records, k, value_field, weight_field, weighted_sum, weight_sum) ==
    IF k > Len(records)
    THEN [status |-> "ok",
          value |-> IF weight_sum > 0 THEN weighted_sum \div weight_sum ELSE 0]
    ELSE LET value == AggregatorFieldValue(records[k], value_field)
             weight == AggregatorFieldValue(records[k], weight_field)
         IN IF value.status = "err" THEN value
            ELSE IF weight.status = "err" THEN weight
            ELSE WeightedLoop(records, k + 1, value_field, weight_field,
                              weighted_sum + value.value * weight.value,
                              weight_sum + weight.value)

\* the Median arm: values[values.len() / 2] of the sorted values
Median(records, field) ==
    LET v == FieldValues(records, field) IN
    IF v.status = "err" THEN v
    ELSE LET values == SortNumbers(v.values) IN
         [status |-> "ok",
          value |-> IF values = <<>> THEN 0 ELSE values[(Len(values) \div 2) + 1]]

ApplyAggregationFunction(records, function) ==
    IF records = <<>> THEN [status |-> "ok", value |-> 0]
    ELSE CASE function.kind \in {"Sum", "Mean", "Max", "Min", "StdDev", "Variance"} ->
                LET v == FieldValues(records, function.field) IN
                IF v.status = "err" THEN v
                ELSE [status |-> "ok",
                      value |->
                          CASE function.kind = "Sum" -> SumSeq(v.values)
                            [] function.kind = "Mean" -> SumSeq(v.values) \div Len(v.values)
                            [] function.kind = "Max" -> MaxOf(v.values)
                            [] function.kind = "Min" -> MinOf(v.values)
                            [] function.kind = "StdDev" -> SqrtFrom(VarianceOf(v.values), 0)
                            [] function.kind = "Variance" -> VarianceOf(v.values)]
           [] function.kind = "Median" -> Median(records, function.field)
           [] function.kind = "Count" -> [status |-> "ok", value |-> Len(records)]
           [] function.kind = "First" -> AggregatorFieldValue(records[1], function.field)
           [] function.kind = "Last" ->
                AggregatorFieldValue(records[Len(records)], function.field)
           [] function.kind = "WeightedMean" ->
                WeightedLoop(records, 1, function.value_field, function.weight_field, 0, 0)
           [] function.kind = "Custom" -> [status |-> "ok", value |-> Log2(Len(records))]

\* usize::to_string
UsizeToString(n) == Digits(n, DecimalDigits(n))

\* the records of `symbol` in the order in which they were pushed to its group
GroupOf(d, symbol) ==
    LET indices == IndicesOf(d, 1, symbol) IN
    [k \in 1..Len(indices) |-> d[indices[k]]]

\* the AggregatedValue pushed for one full window
WindowValue(symbol, window, window_size, value) ==
    [key |-> symbol \o <<"_">> \o DateFormat(window[1].date),
     value |-> value,
     count |-> Some(Len(window)),
     metadata |-> [symbol |-> symbol,
                   window_size |-> UsizeToString(window_size),
                   start_date |-> DateFormat(window[1].date),
                   end_date |-> DateFormat(window[Len(window)].date)]]

\* the loop over the windows of one symbol advancing one record at a time
RECURSIVE ChunkLoopSliding(_, _, _, _, _)
ChunkLoopSliding(symbol, sorted_records, window_size, function, start) ==
    IF start > Len(sorted_records) THEN [status |-> "ok", values |-> <<>>]
    ELSE LET last == IF start + window_size - 1 < Len(sorted_records)
                     THEN start + window_size - 1 ELSE Len(sorted_records)
             window == SubSeq(sorted_records, start, last)
             rest == ChunkLoopSliding(symbol, sorted_records, window_size, function,
                                      start + 1)
         IN IF Len(window) = window_size
            THEN LET value == ApplyAggregationFunction(window, function) IN
                 IF value.status = "err" THEN value
                 ELSE IF rest.status = "err" THEN rest
                 ELSE [status |-> "ok",
                       values |-> <<WindowValue(symbol, window, window_size, value.value)>>
                                  \o rest.values]
            ELSE rest

\* the loop `for window in sorted_records.chunks(window_size)` from the chunk
\* that begins at position `start` on
RECURSIVE ChunkLoop(_, _, _, _, _)
ChunkLoop(symbol, sorted_records, window_size, function, start) ==
    IF start > Len(sorted_records) THEN [status |-> "ok", values |-> <<>>]
    ELSE LET last == IF start + window_size - 1 < Len(sorted_records)
                     THEN start + window_size - 1 ELSE Len(sorted_records)
             window == SubSeq(sorted_records, start, last)
             rest == ChunkLoop(symbol, sorted_records, window_size, function,
                               start + window_size)
         IN IF Len(window) = window_size
            THEN LET value == ApplyAggregationFunction(window, function) IN
                 IF value.status = "err" THEN value
                 ELSE IF rest.status = "err" THEN rest
                 ELSE [status |-> "ok",
                       values |-> <<WindowValue(symbol, window, window_size, value.value)>>
                                  \o rest.values]
            ELSE rest

\* the loop `for (symbol, records) in symbol_groups` of aggregate_time_window;
\* `order` is the order in which the HashMap yields its keys.  chunks(0)
\* panics.
RECURSIVE WindowGroups(_, _, _, _)
WindowGroups(d, window_size, function, order) ==
    IF order = <<>> THEN [status |-> "ok", values |-> <<>>]
    ELSE IF window_size = 0 THEN [status |-> "panic"]
    ELSE LET sorted_records == SortByDate(GroupOf(d, order[1]))
             here == ChunkLoop(order[1], sorted_records, window_size, function, 1)
         IN IF here.status # "ok" THEN here
            ELSE LET rest == WindowGroups(d, window_size, function, Tail(order)) IN
                 IF rest.status # "ok" THEN rest
                 ELSE [status |-> "ok", values |-> here.values \o rest.values]

AggregateTimeWindow(d, window_size, function, order) ==
    LET r == WindowGroups(d, window_size, function, order) IN
    IF r.status # "ok" THEN r
    ELSE [status |-> "ok",
          aggregation_id |-> <<"time_window_">> \o UsizeToString(window_size),
          rule_name |-> "TimeWindow",
          original_count |-> Len(d),
          aggregated_count |-> Len(r.values),
          values |-> r.values]

\* the loop `for (symbol, records) in symbol_groups` of aggregate_by_symbol
RECURSIVE SymbolGroups(_, _, _)
SymbolGroups(d, function, order) ==
    IF order = <<>> THEN [status |-> "ok", values |-> <<>>]
    ELSE LET records == GroupOf(d, order[1])
             value == ApplyAggregationFunction(records, function)
         IN IF value.status = "err" THEN value
            ELSE LET rest == SymbolGroups(d, function, Tail(order)) IN
                 IF rest.status = "err" THEN rest
                 ELSE [status |-> "ok",
                       values |->
                           <<[key |-> order[1], value |-> value.value,
                              count |-> Some(Len(records)),
                              metadata |-> [symbol |-> order[1],
                                            record_count |-> UsizeToString(Len(records))]]>>
                           \o rest.values]

AggregateBySymbol(d, function, order) ==
    LET r == SymbolGroups(d, function, order) IN
    IF r.status = "err" THEN r
    ELSE [status |-> "ok",
          aggregation_id |-> <<"group_by_symbol">>,
          rule_name |-> "GroupBySymbol",
          original_count |-> Len(d),
          aggregated_count |-> Len(r.values),
          values |-> r.values]

AggregateByDateRange(d, start_date, end_date, function) ==
    LET filtered_records ==
            SelectSeq(d, LAMBDA record : /\ DateLeq(start_date, record.date)
                                         /\ DateLeq(record.date, end_date))
        value == ApplyAggregationFunction(filtered_records, function)
        aggregated_values ==
            IF filtered_records # <<>>
            THEN <<[key |-> DateFormat(start_date) \o <<"_">> \o DateFormat(end_date),
                    value |-> value.value,
                    count |-> Some(Len(filtered_records)),
                    metadata |-> [start_date |-> DateFormat(start_date),
                                  end_date |-> DateFormat(end_date),
                                  record_count |-> UsizeToString(Len(filtered_records))]]>>
            ELSE <<>>
    IN IF filtered_records # <<>> /\ value.status = "err" THEN value
       ELSE [status |-> "ok",
             aggregation_id |-> <<"date_range_">> \o DateFormat(start_date) \o <<"_">>
                                \o DateFormat(end_date),
             rule_name |-> "DateRange",
             original_count |-> Len(d),
             aggregated_count |-> Len(aggregated_values),
             values |-> aggregated_values]

AggregateCustom(d, name, function) ==
    LET value == ApplyAggregationFunction(d, function) IN
    IF value.status = "err" THEN value
    ELSE [status |-> "ok",
          aggregation_id |-> <<"custom_">> \o name,
          rule_name |-> "Custom",
          original_count |-> Len(d),
          aggregated_count |-> 1,
          values |-> <<[key |-> name, value |-> value.value, count |-> Some(Len(d)),
                        metadata |-> [aggregation_type |-> "custom",
                                      record_count |-> UsizeToString(Len(d))]]>>]

\* apply_rule; `order` is the iteration order of the rule's HashMap
AggregatorApplyRule(d, rule, order) ==
    CASE rule.type = "TimeWindow" ->
            AggregateTimeWindow(d, rule.window_size, rule.function, order)
      [] rule.type = "GroupBySymbol" -> AggregateBySymbol(d, rule.function, order)
      [] rule.type = "DateRange" ->
            AggregateByDateRange(d, rule.start_date, rule.end_date, rule.function)
      [] rule.type = "Custom" -> AggregateCustom(d, rule.name, rule.function)

\* the loop `for rule in &self.rules` of aggregate, from rule k on; orders[k]
\* is the iteration order of the HashMap that rule k builds
RECURSIVE AggregateLoop(_, _, _, _, _)
AggregateLoop(rs, d, orders, k, results) ==
    IF k > Len(rs) THEN [status |-> "ok", results |-> results]
    ELSE LET result_k == AggregatorApplyRule(d, rs[k], orders[k]) IN
         IF result_k.status # "ok" THEN result_k
         ELSE AggregateLoop(rs, d, orders, k + 1, Append(results, result_k))

Aggregate(rs, d, orders) == AggregateLoop(rs, d, orders, 1, <<>>)

(* The aggregator as a state machine: a DataAggregator is built by new and *)
(* add_rule, and aggregate is called on the caller's slice.  A change of   *)
(* the rules discards the result of an earlier aggregate or                 *)
(* aggregate_parallel.                                                     *)

AddAggregation(rule, limit) ==
    /\ Len(aggregations) < limit
    /\ aggregations' = Append(aggregations, rule)
    /\ aggregated' = NoValue
    /\ gathered' = NoValue
    /\ UNCHANGED <<samples, datasets, stream_args, streamed,
                   parserVars, symbolVars, cleanerVars, calculatorVars, orchestratorVars>>

CallAggregate ==
    /\ \E orders \in [1..Len(aggregations) -> Orders(Symbols(samples))] :
          aggregated' = Aggregate(aggregations, samples, orders)
    /\ UNCHANGED <<aggregations, samples, datasets, gathered, stream_args, streamed,
                   parserVars, symbolVars, cleanerVars, calculatorVars, orchestratorVars>>

\* the iteration orders that the HashMaps built by the rules rs may take on d
OrderChoices(rs, d) == [1..Len(rs) -> Orders(Symbols(d))]

\* one choice of iteration orders for every dataset of ds
RECURSIVE OrderProducts(_, _)
OrderProducts(rs, ds) ==
    IF ds = <<>> THEN {<<>>}
    ELSE {<<o>> \o rest : o \in OrderChoices(rs, ds[1]), rest \in OrderProducts(rs, Tail(ds))}

\* collect() of the workers' outcomes into a Result: the indexed collect puts
\* the results back in dataset order, and the failure that a worker meets
\* first is the failure of the call; `finish` is the order in which the
\* workers finish
CollectOutcomes(outcomes, finish) ==
    LET failed == SelectSeq(finish, LAMBDA i : outcomes[i].status # "ok") IN
    IF failed = <<>>
    THEN [status |-> "ok", results |-> [i \in 1..Len(outcomes) |-> outcomes[i].results]]
    ELSE outcomes[failed[1]]

\* aggregate_parallel: datasets.into_par_iter().map(aggregate).collect();
\* every dataset is aggregated by some worker
AggregateParallel(rs, ds, orders, finish) ==
    CollectOutcomes([i \in 1..Len(ds) |-> Aggregate(rs, ds[i], orders[i])], finish)

CallAggregateParallel ==
    /\ \E orders \in OrderProducts(aggregations, datasets) :
          \E finish \in Orders(1..Len(datasets)) :
             gathered' = AggregateParallel(aggregations, datasets, orders, finish)
    /\ UNCHANGED <<aggregations, samples, aggregated, datasets, stream_args, streamed,
                   parserVars, symbolVars, cleanerVars, calculatorVars, orchestratorVars>>

\* the order in which a HashMap that holds the symbols of d yields them, when
\* `order` ranks all the symbols of the stream
BatchOrder(order, d) == SelectSeq(order, LAMBDA symbol : symbol \in Symbols(d))

\* aggregate_stream without its last step, the flush of a batch that is not full
RECURSIVE StreamLoopNoRest(_, _, _, _, _, _, _)
StreamLoopNoRest(stream, k, batch, batch_size, rule, orders, results) ==
    IF k > Len(stream) THEN [status |-> "ok", results |-> results]
    ELSE LET pushed == Append(batch, stream[k]) IN
         IF Len(pushed) >= batch_size
         THEN LET result_k ==
                      AggregatorApplyRule(pushed, rule,
                                          BatchOrder(orders[Len(results) + 1], pushed))
              IN IF result_k.status # "ok" THEN result_k
                 ELSE StreamLoopNoRest(stream, k + 1, <<>>, batch_size, rule, orders,
                                       Append(results, result_k))
         ELSE StreamLoopNoRest(stream, k + 1, pushed, batch_size, rule, orders, results)

\* the loop `for item in data_stream` of aggregate_stream from item k on,
\* followed by the flush of the last batch; orders[j] ranks the symbols for
\* the HashMap of the j-th flush
RECURSIVE StreamLoop(_, _, _, _, _, _, _)
StreamLoop(stream, k, batch, batch_size, rule, orders, results) ==
    IF k > Len(stream)
    THEN IF batch # <<>>
         THEN LET result_k ==
                      AggregatorApplyRule(batch, rule,
                                          BatchOrder(orders[Len(results) + 1], batch))
              IN IF result_k.status # "ok" THEN result_k
                 ELSE [status |-> "ok", results |-> Append(results, result_k)]
         ELSE [status |-> "ok", results |-> results]
    ELSE LET pushed == Append(batch, stream[k]) IN
         IF Len(pushed) >= batch_size
         THEN LET result_k ==
                      AggregatorApplyRule(pushed, rule,
                                          BatchOrder(orders[Len(results) + 1], pushed))
              IN IF result_k.status # "ok" THEN result_k
                 ELSE StreamLoop(stream, k + 1, <<>>, batch_size, rule, orders,
                                 Append(results, result_k))
         ELSE StreamLoop(stream, k + 1, pushed, batch_size, rule, orders, results)

AggregateStream(stream, batch_size, rule, orders) ==
    StreamLoop(stream, 1, <<>>, batch_size, rule, orders, <<>>)

CallAggregateStream ==
    /\ stream_args # NoValue
    /\ \E orders \in [1..Len(samples) + 1 -> Orders(Symbols(samples))] :
          streamed' = AggregateStream(samples, stream_args.batch_size, stream_args.rule,
                                      orders)
    /\ UNCHANGED <<aggregations, samples, aggregated, datasets, gathered, stream_args,
                   parserVars, symbolVars, cleanerVars, calculatorVars, orchestratorVars>>

\* DataAggregator::new, with the slice the caller is going to pass
InitAggregator(inputs) ==
    /\ aggregations = <<>>
    /\ samples \in inputs
    /\ aggregated = NoValue
    /\ IdleGather
    /\ IdleStream
    /\ IdleParser
    /\ IdleSymbol
    /\ IdleCleaner
    /\ IdleCalculator
    /\ IdleOrchestrator

RuleTimeWindow(window_size, function) ==
    [type |-> "TimeWindow", window_size |-> window_size, function |-> function]
RuleGroupBySymbol(function) == [type |-> "GroupBySymbol", function |-> function]
RuleCustom(name, function) == [type |-> "Custom", name |-> name, function |-> function]

Mean(field) == [kind |-> "Mean", field |-> field]
Last(field) == [kind |-> "Last", field |-> field]
MedianOf(field) == [kind |-> "Median", field |-> field]

\* the sequences of up to n distinct elements of S
DistinctSeqsUpTo(S, n) ==
    {s \in SeqsUpTo(S, n) : \A a \in 1..Len(s) : \A b \in 1..Len(s) : s[a] = s[b] => a = b}

(* Time windows: five days of one symbol and two of another, in any order, *)
(* with windows of one to three records.                                   *)

Day4 == <<2024, 1, 4>>
Day5 == <<2024, 1, 5>>

WindowRecords ==
    {Bar(<<"A">>, Day1, 1000, 1100, 900, 1010, 100),
     Bar(<<"A">>, Day2, 1000, 1100, 900, 1020, 100),
     Bar(<<"A">>, Day3, 1000, 1100, 900, 1030, 100),
     Bar(<<"A">>, Day4, 1000, 1100, 900, 1040, 100),
     Bar(<<"A">>, Day5, 1000, 1100, 900, 1050, 100),
     Bar(<<"B">>, Day1, 2000, 2100, 1900, 2010, 100),
     Bar(<<"B">>, Day2, 2000, 2100, 1900, 2020, 100)}

WindowRules ==
    {RuleTimeWindow(w, Mean("close")) : w \in 1..3} \cup {RuleTimeWindow(2, Last("close"))}

InitWindow == InitAggregator(DistinctSeqsUpTo(WindowRecords, MaxWindowData))

NextWindow ==
    \/ \E rule \in WindowRules : AddAggregation(rule, MaxWindowRules)
    \/ CallAggregate

SpecWindow == InitWindow /\ [][NextWindow]_vars

(* Medians: up to four closes of one symbol under every rule kind that     *)
(* reduces them.                                                           *)

MedianRecords ==
    {Bar(<<"A">>, Day1, 1000, 1100, 900, close, 100) : close \in {1010, 1020, 1030, 1040}}

MedianRules ==
    {RuleCustom(<<"all">>, MedianOf("close")),
     RuleGroupBySymbol(MedianOf("close")),
     RuleTimeWindow(2, MedianOf("close"))}

InitMedian == InitAggregator(SeqsUpTo(MedianRecords, MaxMedianData))

NextMedian ==
    \/ \E rule \in MedianRules : AddAggregation(rule, MaxMedianRules)
    \/ CallAggregate

SpecMedian == InitMedian /\ [][NextMedian]_vars

(* Unknown fields: rules of every kind whose function names a field that a *)
(* record does not have, next to rules that name `close`, over up to two   *)
(* records of two symbols.                                                 *)

RuleDateRange(start_date, end_date, function) ==
    [type |-> "DateRange", start_date |-> start_date, end_date |-> end_date,
     function |-> function]

WeightedMeanOf(value_field, weight_field) ==
    [kind |-> "WeightedMean", value_field |-> value_field, weight_field |-> weight_field]

UnknownRecords ==
    {Bar(<<"A">>, Day1, 1000, 1100, 900, 1010, 100),
     Bar(<<"A">>, Day2, 1000, 1100, 900, 1020, 100),
     Bar(<<"B">>, Day1, 2000, 2100, 1900, 2010, 100)}

UnknownFunctions ==
    {Mean("close"), Mean("price"), Last("price"), WeightedMeanOf("close", "weight")}

UnknownRules ==
    UNION {{RuleGroupBySymbol(f), RuleTimeWindow(2, f), RuleDateRange(Day1, Day2, f),
            RuleDateRange(Day4, Day5, f), RuleCustom(<<"all">>, f)} : f \in UnknownFunctions}

InitUnknown == InitAggregator(SeqsUpTo(UnknownRecords, MaxUnknownData))

NextUnknown ==
    \/ \E rule \in UnknownRules : AddAggregation(rule, MaxUnknownRules)
    \/ CallAggregate

SpecUnknown == InitUnknown /\ [][NextUnknown]_vars

(* Parallel aggregation: up to two datasets of up to two records of two    *)
(* symbols; one rule fails on every record, one panics on every record.    *)

CountOf == [kind |-> "Count"]

GatherRecords ==
    {Bar(<<"A">>, Day1, 1000, 1100, 900, 1010, 100),
     Bar(<<"B">>, Day1, 2000, 2100, 1900, 2010, 100)}

GatherRules ==
    {RuleGroupBySymbol(Mean("close")), RuleCustom(<<"all">>, Mean("price")),
     RuleTimeWindow(0, CountOf)}

\* DataAggregator::new, with the slices the caller is going to pass
InitGather ==
    /\ aggregations = <<>>
    /\ samples = <<>>
    /\ aggregated = NoValue
    /\ datasets \in SeqsUpTo(SeqsUpTo(GatherRecords, MaxGatherData), MaxGatherSets)
    /\ gathered = NoValue
    /\ IdleStream
    /\ IdleParser
    /\ IdleSymbol
    /\ IdleCleaner
    /\ IdleCalculator
    /\ IdleOrchestrator

NextGather ==
    \/ \E rule \in GatherRules : AddAggregation(rule, MaxGatherRules)
    \/ CallAggregateParallel

SpecGather == InitGather /\ [][NextGather]_vars

(* Streams: up to three records of two symbols, batches of zero to three   *)
(* records, and one rule of each kind; the last rule fails on every batch. *)
(* The caller may run the same stream again with other arguments.          *)

StreamRecords ==
    {Bar(<<"A">>, Day1, 1000, 1100, 900, 1010, 100),
     Bar(<<"A">>, Day2, 1000, 1100, 900, 1020, 100),
     Bar(<<"B">>, Day1, 2000, 2100, 1900, 2010, 100)}

StreamRules ==
    {RuleGroupBySymbol(Mean("close")), RuleTimeWindow(2, Last("close")),
     RuleDateRange(Day1, Day1, CountOf), RuleCustom(<<"all">>, Mean("price"))}

\* the arguments of the next aggregate_stream call
ChooseStreamArgs ==
    /\ \E batch_size \in 0..MaxBatch : \E rule \in StreamRules :
          stream_args' = [batch_size |-> batch_size, rule |-> rule]
    /\ streamed' = NoValue
    /\ UNCHANGED <<aggregations, samples, aggregated, datasets, gathered,
                   parserVars, symbolVars, cleanerVars, calculatorVars, orchestratorVars>>

InitStream ==
    /\ aggregations = <<>>
    /\ samples \in SeqsUpTo(StreamRecords, MaxStream)
    /\ aggregated = NoValue
    /\ IdleGather
    /\ IdleStream
    /\ IdleParser
    /\ IdleSymbol
    /\ IdleCleaner
    /\ IdleCalculator
    /\ IdleOrchestrator

NextStream == ChooseStreamArgs \/ CallAggregateStream

SpecStream == InitStream /\ [][NextStream]_vars

----------------------------------------------------------------------------
(* The orchestrator (processors/mod.rs).  A DataProcessor holds a          *)
(* concurrency limit and a semaphore created with as many permits; any     *)
(* number of process_parallel and process_stream calls may run on it at    *)
(* once.  A call is a record: its kind, its input, where it stands (pc),   *)
(* the permits it holds and what it has collected.  A call runs without    *)
(* interruption from one `acquire().await` to the next, so a step of the   *)
(* model is either the acquisition of a permit or all the code between two *)
(* acquisitions.  The items are integers and the caller's closure is       *)
(* Processor: it fails on a negative item.                                 *)

\* the closure handed to process_parallel
Processor(item) ==
    IF item < 0 THEN Failure(item) ELSE [status |-> "ok", value |-> 2 * item + 1]

\* the closure handed to process_stream: the items of a batch one after the
\* other, the first failure being the failure of the batch
RECURSIVE BatchProcessor(_)
BatchProcessor(batch) ==
    IF batch = <<>> THEN [status |-> "ok", values |-> <<>>]
    ELSE LET head == Processor(batch[1]) IN
         IF head.status # "ok" THEN head
         ELSE LET rest == BatchProcessor(Tail(batch)) IN
              IF rest.status # "ok" THEN rest
              ELSE [status |-> "ok", values |-> <<head.value>> \o rest.values]

\* (data.len() + self.concurrency_limit - 1) / self.concurrency_limit in usize:
\* a limit of zero divides by zero (and with no data the subtraction
\* overflows first), which aborts in every build
ChunkSize(len, limit) ==
    IF limit = 0 THEN [status |-> "panic"]
    ELSE [status |-> "ok", value |-> (len + limit - 1) \div limit]

\* data.chunks(chunk_size) from position `start` on
RECURSIVE ChunksFrom(_, _, _)
ChunksFrom(d, chunk_size, start) ==
    IF start > Len(d) THEN <<>>
    ELSE LET last == IF start + chunk_size - 1 < Len(d)
                     THEN start + chunk_size - 1 ELSE Len(d)
         IN <<SubSeq(d, start, last)>> \o ChunksFrom(d, chunk_size, start + chunk_size)

\* chunks that yields nothing for an empty slice whatever the chunk size
ChunksOfEmptyAllowed(d, chunk_size) ==
    IF d = <<>> THEN [status |-> "ok", chunks |-> <<>>]
    ELSE IF chunk_size = 0 THEN [status |-> "panic"]
    ELSE [status |-> "ok", chunks |-> ChunksFrom(d, chunk_size, 1)]

\* data.chunks(chunk_size).collect(); chunks(0) panics, also on an empty slice
Chunks(d, chunk_size) ==
    IF chunk_size = 0 THEN [status |-> "panic"]
    ELSE [status |-> "ok", chunks |-> ChunksFrom(d, chunk_size, 1)]

\* a call of either kind at its beginning
NewCall(kind, d, batch_size) ==
    [kind |-> kind, data |-> d, batch_size |-> batch_size, chunks |-> <<>>, next |-> 1,
     batch |-> <<>>, results |-> <<>>, permits |-> 0, pc |-> "start", outcome |-> NoValue]

Returned(call, outcome) == [call EXCEPT !.pc = "returned", !.outcome = outcome]

\* process_parallel up to its first acquire
BeginParallel(d, limit) ==
    LET call == NewCall("parallel", d, 0)
        chunk_size == ChunkSize(Len(d), limit)
    IN IF chunk_size.status = "panic" THEN [call EXCEPT !.pc = "panicked"]
       ELSE LET split == Chunks(d, chunk_size.value) IN
            IF split.status = "panic" THEN [call EXCEPT !.pc = "panicked"]
            ELSE IF split.chunks = <<>>
            THEN Returned(call, [status |-> "ok", results |-> <<>>])
            ELSE [call EXCEPT !.chunks = split.chunks, !.pc = "acquire"]

\* the values of a chunk in the order in which the workers finish
ChunkResultsAsFinished(chunk, finish) ==
    LET failed == SelectSeq(finish, LAMBDA k : Processor(chunk[k]).status # "ok") IN
    IF failed = <<>>
    THEN [status |-> "ok",
          values |-> [k \in 1..Len(chunk) |-> Processor(chunk[finish[k]]).value]]
    ELSE Processor(chunk[failed[1]])

\* chunk.par_iter().map(processor).collect() into a Result: the values in the
\* order of the chunk, or the failure that a worker meets first; `finish` is
\* the order in which the workers finish
ChunkResults(chunk, finish) ==
    LET failed == SelectSeq(finish, LAMBDA k : Processor(chunk[k]).status # "ok") IN
    IF failed = <<>>
    THEN [status |-> "ok", values |-> [k \in 1..Len(chunk) |-> Processor(chunk[k]).value]]
    ELSE Processor(chunk[failed[1]])

\* permits given back only when the call returns
PermitsDroppedOnReturn(call, next_pc) == IF next_pc = "acquire" THEN 0 ELSE call.permits

\* permits given back only by the explicit drop(_permit)
PermitsDroppedOnSuccess(call, next_pc) == IF next_pc = "failed" THEN 0 ELSE call.permits

\* the permits a call gives back at the end of a step: drop(_permit) after a
\* chunk or a batch, and the drop of the guard when `?` or the end of the
\* function leaves its scope
PermitsDropped(call, next_pc) == call.permits

\* process_parallel from the permit of chunk `next` to the next acquire
AfterChunk(call, chunk_results) ==
    IF chunk_results.status # "ok"
    THEN [Returned(call, chunk_results) EXCEPT
              !.permits = call.permits - PermitsDropped(call, "failed")]
    ELSE LET results == call.results \o chunk_results.values IN
         IF call.next = Len(call.chunks)
         THEN [Returned(call, [status |-> "ok", results |-> results]) EXCEPT
                   !.results = results,
                   !.permits = call.permits - PermitsDropped(call, "returned")]
         ELSE [call EXCEPT !.results = results, !.next = call.next + 1, !.pc = "acquire",
                           !.permits = call.permits - PermitsDropped(call, "acquire")]

\* the loop `for item in data_stream` of process_stream from item `next` up to
\* the next acquire: of a full batch, or of the last batch after the loop
RECURSIVE ReadStream(_)
ReadStream(call) ==
    IF call.next > Len(call.data)
    THEN IF call.batch # <<>>
         THEN [call EXCEPT !.pc = "acquire"]
         ELSE Returned(call, [status |-> "ok", results |-> call.results])
    ELSE LET pushed == [call EXCEPT !.batch = Append(call.batch, call.data[call.next]),
                                    !.next = call.next + 1]
         IN IF Len(pushed.batch) >= call.batch_size
            THEN [pushed EXCEPT !.pc = "acquire"]
            ELSE ReadStream(pushed)

\* process_stream up to its first acquire
BeginStream(d, batch_size) == ReadStream(NewCall("stream", d, batch_size))

\* process_stream from the permit of a batch to the next acquire
AfterBatch(call) ==
    LET batch_results == BatchProcessor(call.batch) IN
    IF batch_results.status # "ok"
    THEN [Returned(call, batch_results) EXCEPT
              !.permits = call.permits - PermitsDropped(call, "failed")]
    ELSE LET extended == [call EXCEPT !.results = call.results \o batch_results.values,
                                      !.batch = <<>>]
             onward == ReadStream(extended)
         IN [onward EXCEPT !.permits = call.permits - PermitsDropped(call, onward.pc)]

UnchangedByOrchestrator ==
    UNCHANGED <<parserVars, symbolVars, cleanerVars, calculatorVars, aggregatorVars>>

\* a caller starts process_parallel on the processor
StartProcessParallel(d, limit) ==
    /\ Len(calls) < limit
    /\ calls' = Append(calls, BeginParallel(d, concurrency_limit))
    /\ UNCHANGED <<concurrency_limit, semaphore>>
    /\ UnchangedByOrchestrator

\* a caller starts process_stream on the processor
StartProcessStream(d, batch_size, limit) ==
    /\ Len(calls) < limit
    /\ calls' = Append(calls, BeginStream(d, batch_size))
    /\ UNCHANGED <<concurrency_limit, semaphore>>
    /\ UnchangedByOrchestrator

\* self.semaphore.acquire().await completes for call c
Acquire(c) ==
    /\ c \in 1..Len(calls)
    /\ calls[c].pc = "acquire"
    /\ semaphore > 0
    /\ semaphore' = semaphore - 1
    /\ calls' = [calls EXCEPT ![c].permits = calls[c].permits + 1, ![c].pc = "process"]
    /\ UNCHANGED concurrency_limit
    /\ UnchangedByOrchestrator

\* call c of process_parallel processes its chunk and goes on to the next
RunChunk(c) ==
    /\ c \in 1..Len(calls)
    /\ calls[c].kind = "parallel"
    /\ calls[c].pc = "process"
    /\ LET chunk == calls[c].chunks[calls[c].next] IN
       \E finish \in Orders(1..Len(chunk)) :
          LET after == AfterChunk(calls[c], ChunkResults(chunk, finish)) IN
          /\ calls' = [calls EXCEPT ![c] = after]
          /\ semaphore' = semaphore + (calls[c].permits - after.permits)
    /\ UNCHANGED concurrency_limit
    /\ UnchangedByOrchestrator

\* call c of process_stream processes its batch and goes on to the next
RunBatch(c) ==
    /\ c \in 1..Len(calls)
    /\ calls[c].kind = "stream"
    /\ calls[c].pc = "process"
    /\ LET after == AfterBatch(calls[c]) IN
       /\ calls' = [calls EXCEPT ![c] = after]
       /\ semaphore' = semaphore + (calls[c].permits - after.permits)
    /\ UNCHANGED concurrency_limit
    /\ UnchangedByOrchestrator

\* DataProcessor::new
InitOrchestrator(limits) ==
    /\ concurrency_limit \in limits
    /\ semaphore = concurrency_limit
    /\ calls = <<>>
    /\ IdleParser
    /\ IdleSymbol
    /\ IdleCleaner
    /\ IdleCalculator
    /\ IdleAggregator

(* Chunking: one process_parallel call on up to four items, two of which   *)
(* fail, under a limit of zero to three.                                   *)

Items == {-2, -1, 1, 2}

InitChunks == InitOrchestrator(0..MaxLimit)

NextChunks ==
    \/ \E d \in SeqsUpTo(Items, MaxItems) : StartProcessParallel(d, 1)
    \/ Acquire(1)
    \/ RunChunk(1)

SpecChunks == InitChunks /\ [][NextChunks]_vars

(* Admission: up to two calls at once, of either kind, on inputs that give *)
(* one or two chunks or batches, a failure, a short last batch or nothing  *)
(* to do, under a limit of zero to two.                                    *)

AdmitInputs == {<<>>, <<1>>, <<1, 2>>, <<1, -1>>}

AdmitBatchSizes == {1, 2}

InitAdmission == InitOrchestrator(0..MaxAdmitLimit)

NextAdmission ==
    \/ \E d \in AdmitInputs : StartProcessParallel(d, MaxCalls)
    \/ \E d \in AdmitInputs : \E batch_size \in AdmitBatchSizes :
          StartProcessStream(d, batch_size, MaxCalls)
    \/ \E c \in 1..MaxCalls : Acquire(c)
    \/ \E c \in 1..MaxCalls : RunChunk(c)
    \/ \E c \in 1..MaxCalls : RunBatch(c)

SpecAdmission == InitAdmission /\ [][NextAdmission]_vars

\* the runtime polls every call that can go on, and the semaphore serves its
\* waiters in turn
SpecAdmissionFair ==
    /\ SpecAdmission
    /\ \A c \in 1..MaxCalls :
          /\ SF_vars(Acquire(c))
          /\ WF_vars(RunChunk(c))
          /\ WF_vars(RunBatch(c))

----------------------------------------------------------------------------
(* Properties of the decoder.                                              *)

Converts(raw) == ConvertBinaryRecord(raw, ArgSymbol, ArgMarket).status = "ok"

SortedByDate(recs) ==
    \A i \in 1..Len(recs) : \A j \in 1..Len(recs) :
        i < j => DateLeq(recs[i].date, recs[j].date)

\* C1: parse_binary_data fails with InvalidLength, returning no records, on
\* every buffer whose length is not a multiple of 32; on a buffer of 32*n
\* bytes whose records are all valid it returns exactly n records in
\* ascending date order, whatever their order in the buffer.
ThmDecodeLengthAndOrder ==
    parsed # NoValue =>
        /\ (BufferLen(buffer, extra) % 32 # 0 => parsed = Failure("InvalidLength"))
        /\ (BufferLen(buffer, extra) % 32 = 0 /\ (\A i \in 1..Len(buffer) : Converts(buffer[i]))
              => /\ parsed.status = "ok"
                 /\ Len(parsed.records) = BufferLen(buffer, extra) \div 32
                 /\ SortedByDate(parsed.records))

\* a buffer of three valid records stored in descending date order was decoded
WitDecodeReordered ==
    /\ parsed # NoValue
    /\ parsed.status = "ok"
    /\ Len(buffer) = 3
    /\ buffer[1].date > buffer[2].date
    /\ buffer[2].date > buffer[3].date
    /\ Len(parsed.records) = 3

BadPrices(o, h, l, c) ==
    \/ o <= 0 \/ h <= 0 \/ l <= 0 \/ c <= 0
    \/ h < l
    \/ o < l \/ o > h \/ c < l \/ c > h
    \/ \E p \in {o, h, l, c} : p < 1 \/ p > 1000000

\* C2: every record of a successful decode has
\* 0.01 <= low <= open <= high <= 10000.00 and low <= close <= high; a record
\* (with a valid date, after valid records) whose prices are non-positive,
\* have high < low, have open or close outside [low, high] or have any of the
\* four outside [0.01, 10000.00] makes the decode fail with InvalidPrice.
ThmDecodedPricesInBand ==
    parsed # NoValue =>
        /\ (parsed.status = "ok" =>
              \A i \in 1..Len(parsed.records) :
                 LET r == parsed.records[i] IN
                 /\ 1 <= r.low /\ r.low <= r.open /\ r.open <= r.high /\ r.high <= 1000000
                 /\ r.low <= r.close /\ r.close <= r.high)
        /\ \A i \in 1..Len(buffer) :
              ( /\ extra = 0
                /\ \A j \in 1..(i - 1) : Converts(buffer[j])
                /\ ConvertDate(buffer[i].date).status = "ok"
                /\ BadPrices(buffer[i].open, buffer[i].high, buffer[i].low, buffer[i].close) )
              => parsed = Failure("InvalidPrice")

\* a record spanning the whole band, low = 0.01 and high = 10000.00, was accepted
WitDecodedBandEdges ==
    /\ parsed # NoValue
    /\ parsed.status = "ok"
    /\ Len(parsed.records) = 1
    /\ parsed.records[1].low = 1
    /\ parsed.records[1].high = 1000000
    /\ parsed.records[1].open = 2

FirstInvalid(buf) ==
    CHOOSE i \in 1..Len(buf) :
        ~Converts(buf[i]) /\ \A j \in 1..(i - 1) : Converts(buf[j])

\* C3: when some record of a buffer of whole records is invalid, the call
\* returns the error of the first invalid record in buffer order and yields
\* no records, not even the valid ones before it.
ThmDecodeAtomic ==
    (parsed # NoValue /\ extra = 0 /\ \E i \in 1..Len(buffer) : ~Converts(buffer[i])) =>
        /\ parsed.status = "err"
        /\ "records" \notin DOMAIN parsed
        /\ parsed = [status |-> "err",
                     error |-> ConvertBinaryRecord(buffer[FirstInvalid(buffer)],
                                                   ArgSymbol, ArgMarket).error]

\* a decode failed on a bad price in its second record, after a valid record
\* and before a record with a bad date
WitDecodeFailedAfterValid ==
    /\ parsed # NoValue
    /\ parsed = Failure("InvalidPrice")
    /\ Len(buffer) = 3
    /\ Converts(buffer[1])
    /\ ConvertDate(buffer[2].date).status = "ok"
    /\ ConvertDate(buffer[3].date).status = "err"

----------------------------------------------------------------------------
(* Properties of the symbol derivation.                                    *)

SixAsciiDigits(s) == Len(s) = 6 /\ \A i \in 1..Len(s) : IsAsciiDigit(s[i])

\* C4: extract_symbol_market (on a path that names a market) and
\* validate_symbol accept an identifier only if it is exactly 6 ASCII digits,
\* and fail with InvalidSymbol on any other.
ClaimSymbolSixDigits ==
    /\ (validated # NoValue /\ ~SixAsciiDigits(path.stem)
          => validated = Failure("InvalidSymbol"))
    /\ (extracted # NoValue /\ ~SixAsciiDigits(path.stem)
           /\ (ContainsMarket(path, "sh") \/ ContainsMarket(path, "sz"))
          => extracted = Failure("InvalidSymbol"))

----------------------------------------------------------------------------
(* Properties of the cleaner.                                              *)

Cleaned == result # NoValue /\ result.status = "ok"

\* C5: clean applies the configured rules strictly in list order, each rule
\* receiving exactly the records that survived all earlier rules (the first
\* rule the input, rule k+1 what rule k left, nothing restored), and
\* applied_rules has one entry per configured rule in the same order.
ThmRulesInOrder ==
    Cleaned =>
        /\ Len(result.steps) = Len(rules)
        /\ Len(result.applied_rules) = Len(rules)
        /\ \A k \in 1..Len(rules) :
              /\ result.applied_rules[k] = RuleLabel(rules[k])
              /\ result.steps[k].rule = rules[k]
              /\ result.steps[k].seen = (IF k = 1 THEN data ELSE result.steps[k - 1].kept)
              /\ Len(result.steps[k].kept) <= Len(result.steps[k].seen)
        /\ result.cleaned_count =
              (IF rules = <<>> THEN Len(data) ELSE Len(result.steps[Len(rules)].kept))

\* three rules ran, the first dropped a record and the second dropped another
WitRulesInOrder ==
    /\ Cleaned
    /\ Len(rules) = 3
    /\ Len(result.steps[1].kept) < Len(result.steps[1].seen)
    /\ Len(result.steps[2].kept) < Len(result.steps[2].seen)

SamePair(a, b) == a.symbol = b.symbol /\ a.date = b.date

\* the records of d that no earlier record of d matches in (symbol, date)
FirstOccurrences(d) ==
    KeepPositions(d, 1, {i \in 1..Len(d) : \E j \in 1..(i - 1) : SamePair(d[j], d[i])})

DuplicatesBefore(k) ==
    IF k = 1 THEN 0 ELSE result.steps[k - 1].statistics.duplicates_removed

\* C6: RemoveDuplicates with default keys leaves each (symbol, date) pair at
\* most once, keeps the first occurrence of a pair in input order, keeps the
\* relative order of the kept records, and adds to duplicates_removed exactly
\* the number of records it dropped.
ThmDedupFirstOccurrence ==
    Cleaned =>
        \A k \in 1..Len(rules) :
            rules[k] = RuleRemoveDuplicates(<<>>) =>
                LET seen == result.steps[k].seen
                    kept == result.steps[k].kept
                IN /\ \A i \in 1..Len(kept) : \A j \in 1..Len(kept) :
                          SamePair(kept[i], kept[j]) => i = j
                   /\ kept = FirstOccurrences(seen)
                   /\ result.steps[k].statistics.duplicates_removed
                         = DuplicatesBefore(k) + (Len(seen) - Len(kept))

\* a default-key rule met a pair twice, with different volumes, and a second pair
WitDedupDropped ==
    /\ Cleaned
    /\ rules = <<RuleRemoveDuplicates(<<>>)>>
    /\ Len(data) = 3
    /\ SamePair(data[1], data[3])
    /\ data[1].volume # data[3].volume
    /\ ~SamePair(data[1], data[2])
    /\ result.cleaned_count = 2

\* C7: clean with RemoveDuplicates { keys: ["symbol", "date"] } drops every
\* record whose (symbol, date) equals that of an earlier record: cleaned_count
\* is the number of distinct pairs and duplicates_removed is
\* original_count - cleaned_count.
ClaimDedupSymbolDateKeys ==
    (Cleaned /\ rules = <<RuleRemoveDuplicates(<<"symbol", "date">>)>>) =>
        /\ result.cleaned_count
              = Cardinality({<<data[i].symbol, data[i].date>> : i \in 1..Len(data)})
        /\ result.statistics.duplicates_removed
              = result.original_count - result.cleaned_count

\* C8: with an empty trading calendar RemoveNonTradingDays drops nothing: as
\* many records leave the rule as entered it.
ClaimEmptyCalendarNoOp ==
    (Cleaned /\ trading_days = {}) =>
        \A k \in 1..Len(rules) :
            rules[k].type = "RemoveNonTradingDays" =>
                Len(result.steps[k].kept) = Len(result.steps[k].seen)

NamesUnknownField(rule) ==
    /\ rule.type \in {"RemoveOutliers", "FillMissing", "ValidateRange"}
    /\ rule.field \notin KnownFields

\* C9: on a non-empty input clean fails with UnknownField whenever a
\* configured RemoveOutliers, FillMissing or ValidateRange rule names a field
\* outside {open, high, low, close, volume, amount}.
ClaimUnknownFieldFails ==
    (result # NoValue /\ data # <<>> /\ \E k \in 1..Len(rules) : NamesUnknownField(rules[k]))
        => result = Failure("UnknownField")

Consistent(r) ==
    /\ r.low <= r.high
    /\ r.low <= r.open /\ r.open <= r.high
    /\ r.low <= r.close /\ r.close <= r.high

InconsistenciesBefore(k) ==
    IF k = 1 THEN 0 ELSE result.steps[k - 1].statistics.price_inconsistencies

\* C10: ValidatePriceConsistency is idempotent: after one pass every record
\* has low <= high and open, close within [low, high], and a further pass
\* over that output returns it unchanged and repairs no record.
ThmConsistencyIdempotent ==
    Cleaned =>
        \A k \in 1..Len(rules) :
            rules[k] = RuleValidatePriceConsistency =>
                /\ \A i \in 1..Len(result.steps[k].kept) : Consistent(result.steps[k].kept[i])
                /\ k > 1 /\ rules[k - 1] = RuleValidatePriceConsistency =>
                      /\ result.steps[k].kept = result.steps[k].seen
                      /\ result.steps[k].statistics.price_inconsistencies
                            = InconsistenciesBefore(k)

\* two passes ran over a record with high < low and open, close out of range,
\* and the first pass repaired it
WitConsistencyRepaired ==
    /\ Cleaned
    /\ rules = <<RuleValidatePriceConsistency, RuleValidatePriceConsistency>>
    /\ Len(data) = 1
    /\ data[1].high < data[1].low
    /\ data[1].open < data[1].high
    /\ data[1].close > data[1].low
    /\ result.steps[1].statistics.price_inconsistencies = 1
    /\ result.statistics.price_inconsistencies = 1

\* C11: ValidatePriceConsistency never drops a record, and
\* price_inconsistencies grows by exactly the number of records on which a
\* swap or a clamp occurred, each such record counted once however many of
\* the high/low swap, the open clamp and the close clamp applied to it.
ThmConsistencyCountsRecords ==
    Cleaned =>
        \A k \in 1..Len(rules) :
            rules[k] = RuleValidatePriceConsistency =>
                LET seen == result.steps[k].seen
                    kept == result.steps[k].kept
                IN /\ Len(kept) = Len(seen)
                   /\ \A i \in 1..Len(kept) :
                          /\ kept[i].date = seen[i].date
                          /\ kept[i].symbol = seen[i].symbol
                          /\ kept[i].volume = seen[i].volume
                   /\ result.steps[k].statistics.price_inconsistencies
                         = InconsistenciesBefore(k)
                           + Cardinality({i \in 1..Len(seen) : kept[i] # seen[i]})

\* one pass over two records, the second with high = 8 < low = 12 and open
\* and close out of range as well: both records stay and one is counted
WitConsistencyCountedOnce ==
    /\ Cleaned
    /\ rules = <<RuleValidatePriceConsistency>>
    /\ Len(data) = 2
    /\ Consistent(data[1])
    /\ data[2].high = 800 /\ data[2].low = 1200
    /\ data[2].open > data[2].low /\ data[2].close < data[2].high
    /\ result.cleaned_count = 2
    /\ result.statistics.price_inconsistencies = 1

PriceFields == {"open", "high", "low", "close"}

FilledBefore(k) ==
    IF k = 1 THEN 0 ELSE result.steps[k - 1].statistics.missing_values_filled

\* the value of the named field is absent: a non-positive price or amount, a
\* zero volume
Missing(record, field) ==
    IF field = "volume" THEN record.volume = 0
    ELSE ExtractFieldValue(record, field).value <= 0

\* C12: FillMissing on a price field treats a record as missing exactly when
\* the value of the named field is non-positive: a record whose named field
\* is positive is left unchanged and is not counted in
\* missing_values_filled, even if another of its price fields is
\* non-positive.
ClaimFillNamedFieldOnly ==
    Cleaned =>
        \A k \in 1..Len(rules) :
            (rules[k].type = "FillMissing" /\ rules[k].field \in PriceFields) =>
                LET seen == result.steps[k].seen
                    kept == result.steps[k].kept
                    field == rules[k].field
                IN /\ Len(kept) = Len(seen)
                   /\ \A i \in 1..Len(seen) :
                          ~Missing(seen[i], field) => kept[i] = seen[i]
                   /\ result.steps[k].statistics.missing_values_filled
                         = FilledBefore(k)
                           + Cardinality({i \in 1..Len(seen) : Missing(seen[i], field)})

\* the records of d that may lend record i a value: same symbol, an earlier
\* date, a present value, and no such record dated between the two
Lenders(d, i, field) ==
    LET Earlier(j) == /\ d[j].symbol = d[i].symbol
                      /\ DateLess(d[j].date, d[i].date)
                      /\ ~Missing(d[j], field)
    IN {j \in 1..Len(d) : /\ Earlier(j)
                          /\ \A n \in 1..Len(d) :
                                Earlier(n) => DateLeq(d[n].date, d[j].date)}

\* C13: FillMissing with ForwardFill replaces each missing value of the
\* named field by the value of that field in the nearest chronologically
\* earlier record of the same symbol that has a valid value, for price
\* fields and volume alike, whatever the order and mix of symbols of the
\* input; a value is never taken from a record of another symbol or from a
\* record with a later date.
ClaimForwardFillNearestEarlier ==
    Cleaned =>
        \A k \in 1..Len(rules) :
            rules[k] = RuleFillMissing(rules[k].field, "ForwardFill") =>
                LET seen == result.steps[k].seen
                    kept == result.steps[k].kept
                    field == rules[k].field
                    Value(r) == ExtractFieldValue(r, field).value
                IN \A i \in 1..Len(seen) :
                      Missing(seen[i], field) =>
                          /\ Lenders(seen, i, field) # {} =>
                                \E j \in Lenders(seen, i, field) :
                                    Value(kept[i]) = Value(seen[j])
                          /\ Value(kept[i]) # Value(seen[i]) =>
                                \E j \in 1..Len(seen) :
                                    /\ seen[j].symbol = seen[i].symbol
                                    /\ ~DateLess(seen[i].date, seen[j].date)
                                    /\ Value(kept[i]) = Value(seen[j])

RECURSIVE DroppedByOutlierRules(_)
DroppedByOutlierRules(k) ==
    IF k = 0 THEN 0
    ELSE DroppedByOutlierRules(k - 1)
         + (IF rules[k].type = "RemoveOutliers"
            THEN Len(result.steps[k].seen) - Len(result.steps[k].kept)
            ELSE 0)

\* C14: after clean, statistics.outliers_removed equals the total number of
\* records dropped by the RemoveOutliers rules of the run.
ClaimOutliersCounted ==
    Cleaned => result.statistics.outliers_removed = DroppedByOutlierRules(Len(rules))

\* C29: no cleaning rule adds a record: the record count does not grow from
\* one rule to the next, so cleaned_count <= original_count, removed_count is
\* original_count - cleaned_count without underflow, and it is at least
\* duplicates_removed + range_violations.
ThmNoRecordAdded ==
    Cleaned =>
        /\ \A k \in 1..Len(result.steps) :
               Len(result.steps[k].kept) <= Len(result.steps[k].seen)
        /\ result.original_count = Len(data)
        /\ result.cleaned_count <= result.original_count
        /\ result.removed_count >= 0
        /\ result.removed_count = result.original_count - result.cleaned_count
        /\ result.removed_count >= result.statistics.duplicates_removed
                                    + result.statistics.range_violations

\* a duplicate and a range violation were both dropped and counted, and a
\* third record was dropped by a rule that keeps no count
WitRemovedBeyondCounters ==
    /\ Cleaned
    /\ result.statistics.duplicates_removed >= 1
    /\ result.statistics.range_violations >= 1
    /\ result.removed_count > result.statistics.duplicates_removed
                                + result.statistics.range_violations

----------------------------------------------------------------------------
(* Properties of the indicator engine.                                     *)

Enhanced == enhanced # NoValue /\ enhanced.status = "ok"

\* the indicator values at 0-based position i of a series of which only the
\* records 0..i are given
FromPrefix(d, i) ==
    CalculateSymbolIndicators(SubSeq(d, 1, i + 1), DefaultWindowSizes)[i + 1].value

\* C15: on a date-sorted single-symbol series with the default windows, at
\* 0-based index i ma_k is present iff i >= k - 1, volume_ma5 iff i >= 4,
\* change_percent and amplitude iff i >= 1, rsi and bollinger iff i >= 19 and
\* macd iff i >= 25; each value reads only records at indices <= i.
ThmIndicatorThresholds ==
    Enhanced =>
        /\ Len(enhanced.records) = Len(series)
        /\ \A i \in 0..(Len(series) - 1) :
              LET v == enhanced.records[i + 1].indicators IN
              /\ enhanced.records[i + 1].base_record = series[i + 1]
              /\ v.ma5.some <=> i >= 4
              /\ v.ma10.some <=> i >= 9
              /\ v.ma20.some <=> i >= 19
              /\ v.ma60.some <=> i >= 59
              /\ v.volume_ma5.some <=> i >= 4
              /\ v.change_percent.some <=> i >= 1
              /\ v.amplitude.some <=> i >= 1
              /\ v.rsi.some <=> i >= 19
              /\ v.bollinger.some <=> i >= 19
              /\ v.macd.some <=> i >= 25
              /\ v = FromPrefix(series, i)

\* a series of more than 60 days with moving closes was enriched: ma5 starts
\* at index 4, macd at index 25 and ma60 at index 59
WitIndicatorThresholds ==
    /\ Enhanced
    /\ Len(series) > 60
    /\ series[1].close # series[2].close
    /\ ~enhanced.records[4].indicators.ma5.some
    /\ enhanced.records[5].indicators.ma5.some
    /\ ~enhanced.records[25].indicators.macd.some
    /\ enhanced.records[26].indicators.macd.some
    /\ ~enhanced.records[59].indicators.ma60.some
    /\ enhanced.records[60].indicators.ma60.some

\* the 0-based position of record idx among the records of its symbol in
\* date order, records of one date in input order
Rank(d, idx) ==
    Cardinality({j \in 1..Len(d) :
                    /\ d[j].symbol = d[idx].symbol
                    /\ \/ DateLess(d[j].date, d[idx].date)
                       \/ d[j].date = d[idx].date /\ j < idx})

\* the records of the symbol of record idx, by rank
OwnSeries(d, idx) ==
    LET own == {j \in 1..Len(d) : d[j].symbol = d[idx].symbol} IN
    [p \in 1..Cardinality(own) |-> d[CHOOSE j \in own : Rank(d, j) = p - 1]]

\* record idx paired with the indicators of its position in its own series
Expected(d, idx) ==
    [base_record |-> d[idx],
     indicators |-> CalculateSymbolIndicators(OwnSeries(d, idx),
                                              DefaultWindowSizes)[Rank(d, idx) + 1].value]

Count(s, x) == Cardinality({k \in 1..Len(s) : s[k] = x})

\* s and t hold the same elements the same number of times
SameBag(s, t) ==
    /\ Len(s) = Len(t)
    /\ \A k \in 1..Len(s) : Count(s, s[k]) = Count(t, s[k])

\* C16: calculate_all_indicators returns exactly one enriched record per
\* input record, for any mix of symbols and any input order, each pairing
\* the unchanged input record with the indicator set computed at that
\* record's position in its own symbol's date-sorted series.
ThmOneEnrichedPerInput ==
    (Enhanced /\ enhanced.call = "calculate_all_indicators") =>
        /\ Len(enhanced.records) = Len(series)
        /\ SameBag([idx \in 1..Len(series) |-> Expected(series, idx)], enhanced.records)

\* four records of two symbols, interleaved and not in date order, were
\* enriched, and the output is not in input order
WitEnrichedOutOfOrder ==
    /\ Enhanced /\ enhanced.call = "calculate_all_indicators"
    /\ Len(series) = 4
    /\ series[1].symbol # series[2].symbol
    /\ series[1].symbol = series[3].symbol
    /\ DateLess(series[3].date, series[1].date)
    /\ series[2].symbol = series[4].symbol
    /\ enhanced.records[1].base_record # series[1]
    /\ enhanced.records[1].indicators.change_percent = None
    /\ enhanced.records[2].indicators.change_percent # None

OfSymbol(records, symbol) == SelectSeq(records, LAMBDA r : r.base_record.symbol = symbol)

ThmMacdSignalZero ==
    Enhanced =>
        \A i \in 0..(Len(series) - 1) :
            LET macd == enhanced.records[i + 1].indicators.macd
                closes == [k \in 1..Len(series) |-> series[k].close]
            IN macd.some =>
                  /\ i >= 25
                  /\ Len(DifValues(Slice(closes, i - 25, i), 0)) = 1
                  /\ macd.value.signal = 0
                  /\ macd.value.histogram = macd.value.dif
                  /\ macd.value.dif = CalculateEma(Slice(closes, i - 25, i), 12)
                                      - CalculateEma(Slice(closes, i - 25, i), 26)

\* a moving series long enough for nine DIF samples over its whole history:
\* at index 60 the DIF is not 0 and the signal is
WitMacdSignalZero ==
    /\ Enhanced
    /\ Len(series) > 60
    /\ enhanced.records[61].indicators.macd.some
    /\ enhanced.records[61].indicators.macd.value.dif # 0
    /\ enhanced.records[61].indicators.macd.value.signal = 0
    /\ enhanced.records[61].indicators.macd.value.histogram # 0

----------------------------------------------------------------------------
(* Properties of the aggregator.                                           *)

Aggregated == aggregated # NoValue /\ aggregated.status = "ok"

\* the records of `symbol` in date order
SeriesOf(d, symbol) == OwnSeries(d, CHOOSE idx \in 1..Len(d) : d[idx].symbol = symbol)

\* the values a summary holds for `symbol`, in the order of the summary
ValuesOf(summary, symbol) ==
    SelectSeq(summary.values, LAMBDA v : v.metadata.symbol = symbol)

ClaimWindowsSlide ==
    (/\ Aggregated
     /\ Cardinality(Symbols(samples)) = 1
     /\ \A a \in 1..Len(samples) : \A b \in 1..Len(samples) :
           samples[a].date = samples[b].date => a = b) =>
        \A k \in 1..Len(aggregations) :
            (/\ aggregations[k].type = "TimeWindow"
             /\ aggregations[k].window_size >= 1
             /\ aggregations[k].window_size <= Len(samples)) =>
                aggregated.results[k].aggregated_count
                    = Len(samples) - aggregations[k].window_size + 1

\* the k-th smallest of a non-empty vector of numbers, k from 1
KthSmallest(values, k) ==
    CHOOSE x \in Range(values) :
        /\ Cardinality({i \in 1..Len(values) : values[i] < x}) < k
        /\ k <= Cardinality({i \in 1..Len(values) : values[i] <= x})

\* C20: the Median reduction returns, for every non-empty record set, the
\* middle element of the sorted field values for odd counts and the
\* lower-middle element (sorted index n/2 - 1, 0-based) for even counts.
ClaimMedianLowerMiddle ==
    (Aggregated /\ samples # <<>>) =>
        \A k \in 1..Len(aggregations) :
            aggregations[k] = RuleCustom(<<"all">>, MedianOf("close")) =>
                LET closes == [i \in 1..Len(samples) |-> samples[i].close]
                    n == Len(samples)
                IN aggregated.results[k].values[1].value
                      = KthSmallest(closes, IF n % 2 = 1 THEN (n + 1) \div 2 ELSE n \div 2)


\* a function that reads a field no record has
ReadsUnknownField(function) ==
    \/ /\ function.kind \in {"Sum", "Mean", "Max", "Min", "Median", "First", "Last",
                             "StdDev", "Variance"}
       /\ function.field \notin KnownFields
    \/ /\ function.kind = "WeightedMean"
       /\ function.value_field \notin KnownFields \/ function.weight_field \notin KnownFields

\* C21: on a non-empty input, aggregate fails with UnknownField as soon as one
\* configured rule, of whatever kind, has a function that names a field
\* outside open, high, low, close, volume and amount; a date range that
\* matches no record and a time window without a full chunk included.
ClaimUnknownFieldAlwaysFails ==
    (/\ aggregated # NoValue
     /\ samples # <<>>
     /\ \E k \in 1..Len(aggregations) : ReadsUnknownField(aggregations[k].function))
        => aggregated = Failure("UnknownField")


\* the values that aggregate may return on dataset i under the present rules
Sequential(i) ==
    {Aggregate(aggregations, datasets[i], o) : o \in OrderChoices(aggregations, datasets[i])}

\* C22: aggregate_parallel returns one entry per dataset, in dataset order,
\* and entry i is equal to what aggregate returns on dataset i, the values of
\* every summary in the same order, whatever the workers' order; it fails as
\* soon as aggregate fails on one dataset.
ClaimParallelEqualsSequential ==
    gathered # NoValue =>
        /\ gathered.status = "ok" =>
              /\ Len(gathered.results) = Len(datasets)
              /\ \A i \in 1..Len(datasets) : \A r \in Sequential(i) :
                     r.status = "ok" /\ gathered.results[i] = r.results
        /\ (\E i \in 1..Len(datasets) : \E r \in Sequential(i) : r.status # "ok")
              => gathered.status # "ok"


\* the k-th batch of b records of the stream
BatchOf(k, b) ==
    SubSeq(samples, (k - 1) * b + 1, IF k * b < Len(samples) THEN k * b ELSE Len(samples))

\* the summaries that the rule may yield on a batch
SummariesOf(batch) ==
    {AggregatorApplyRule(batch, stream_args.rule, order) : order \in Orders(Symbols(batch))}

\* C23: with a batch size b >= 1, aggregate_stream over n records returns
\* ceil(n / b) summaries in arrival order, the k-th being the rule applied to
\* records (k-1)*b+1 .. min(k*b, n); every batch but the last holds b records,
\* the original counts add up to n, and an empty stream yields no summary.
\* The call fails only when the rule names an unknown field.
ThmStreamBatches ==
    (streamed # NoValue /\ stream_args.batch_size >= 1) =>
        LET n == Len(samples)
            b == stream_args.batch_size
        IN /\ streamed.status # "ok" =>
                 n >= 1 /\ ReadsUnknownField(stream_args.rule.function)
           /\ streamed.status = "ok" =>
                 /\ Len(streamed.results) = (n + b - 1) \div b
                 /\ \A k \in 1..Len(streamed.results) :
                        /\ streamed.results[k] \in SummariesOf(BatchOf(k, b))
                        /\ k < Len(streamed.results)
                              => streamed.results[k].original_count = b
                 /\ SumSeq([k \in 1..Len(streamed.results) |->
                               streamed.results[k].original_count]) = n
                 /\ n = 0 => streamed.results = <<>>

\* three records in batches of two: a full batch, then a batch of one
WitStreamLastBatchShort ==
    /\ streamed # NoValue
    /\ streamed.status = "ok"
    /\ Len(samples) = 3
    /\ stream_args.batch_size = 2
    /\ Len(streamed.results) = 2
    /\ streamed.results[1].original_count = 2
    /\ streamed.results[2].original_count = 1


----------------------------------------------------------------------------
(* Properties of the orchestrator.                                         *)

\* the positions of the items on which the closure fails
Failing(d) == {i \in 1..Len(d) : Processor(d[i]).status # "ok"}

\* the chunk, counted from 1, that holds position i when chunks have `size` items
ChunkOfPosition(i, size) == ((i - 1) \div size) + 1

\* C24: on a non-empty input under a limit >= 1, process_parallel returns
\* processor(data[i]) for every i, in input order, when every processor call
\* succeeds; when one fails it returns the error of a failing call, out of the
\* first chunk that holds one, and no results.
ThmParallelInInputOrder ==
    \A c \in 1..Len(calls) :
        LET call == calls[c]
            size == ChunkSize(Len(call.data), concurrency_limit).value
        IN (call.kind = "parallel" /\ call.data # <<>> /\ concurrency_limit >= 1) =>
              /\ call.pc # "panicked"
              /\ call.pc = "returned" =>
                    IF Failing(call.data) = {}
                    THEN call.outcome =
                             [status |-> "ok",
                              results |-> [i \in 1..Len(call.data) |->
                                              Processor(call.data[i]).value]]
                    ELSE \E i \in Failing(call.data) :
                            /\ call.outcome = Processor(call.data[i])
                            /\ DOMAIN call.outcome = {"status", "error"}
                            /\ \A j \in Failing(call.data) :
                                   ChunkOfPosition(i, size) <= ChunkOfPosition(j, size)

\* four items in two chunks of two, all processed
WitParallelTwoChunks ==
    \E c \in 1..Len(calls) :
        /\ calls[c].kind = "parallel"
        /\ calls[c].pc = "returned"
        /\ calls[c].outcome.status = "ok"
        /\ Len(calls[c].data) = 4
        /\ Len(calls[c].chunks) = 2
        /\ calls[c].data[1] # calls[c].data[2]

\* C25: an input of n >= concurrency_limit items is split into exactly
\* concurrency_limit contiguous chunks whose sizes differ by at most one.
ClaimChunksAsManyAsLimit ==
    \A c \in 1..Len(calls) :
        LET call == calls[c] IN
        (/\ call.kind = "parallel"
         /\ concurrency_limit >= 1
         /\ Len(call.data) >= concurrency_limit) =>
            /\ Len(call.chunks) = concurrency_limit
            /\ \A a \in 1..Len(call.chunks) : \A b \in 1..Len(call.chunks) :
                   Len(call.chunks[a]) - Len(call.chunks[b]) <= 1


\* the permits held by the calls from call c on
RECURSIVE HeldFrom(_)
HeldFrom(c) == IF c > Len(calls) THEN 0 ELSE calls[c].permits + HeldFrom(c + 1)

Finished(call) == call.pc \in {"returned", "panicked"}

\* C26: whatever calls share the processor, a chunk or a batch is processed
\* only by a call that holds a permit, at most concurrency_limit permits are
\* held at a time, a call holds at most one, a call that waits or has come to
\* its end holds none, and once every call has come to its end all the
\* permits are back in the semaphore.
ThmAdmission ==
    /\ semaphore >= 0
    /\ semaphore + HeldFrom(1) = concurrency_limit
    /\ \A c \in 1..Len(calls) :
          /\ calls[c].permits \in {0, 1}
          /\ calls[c].pc = "process" <=> calls[c].permits = 1
    /\ (\A c \in 1..Len(calls) : Finished(calls[c])) => semaphore = concurrency_limit

\* two calls have come to their end, one of them with an error met while it
\* held a permit, and every permit is back
WitAdmissionAfterFailure ==
    /\ concurrency_limit >= 1
    /\ Len(calls) = 2
    /\ \A c \in 1..Len(calls) : calls[c].pc = "returned"
    /\ \E c \in 1..Len(calls) : calls[c].outcome.status = "err"
    /\ \E c \in 1..Len(calls) : calls[c].outcome.status = "ok" /\ calls[c].results # <<>>
    /\ semaphore = concurrency_limit

ThmEmptyInputAborts ==
    \A c \in 1..Len(calls) :
        LET call == calls[c]
            n == Len(call.data)
            chunk_size == ChunkSize(n, concurrency_limit)
        IN call.kind = "parallel" =>
              /\ concurrency_limit = 0 =>
                    chunk_size.status = "panic" /\ call.pc = "panicked"
              /\ (concurrency_limit >= 1 /\ n = 0) =>
                    /\ chunk_size = [status |-> "ok", value |-> 0]
                    /\ call.pc = "panicked"
                    /\ call.outcome = NoValue
              /\ (concurrency_limit >= 1 /\ n >= 1) =>
                    /\ chunk_size.status = "ok"
                    /\ chunk_size.value >= 1
                    /\ call.pc # "panicked"
                    /\ call.chunks # <<>>
                    /\ Len(call.chunks[1]) = chunk_size.value

\* an empty input under a limit >= 1 has aborted the call, no permit taken
WitEmptyInputAborted ==
    /\ concurrency_limit >= 1
    /\ semaphore = concurrency_limit
    /\ \E c \in 1..Len(calls) :
          calls[c].kind = "parallel" /\ calls[c].data = <<>> /\ calls[c].pc = "panicked"

====
